---- MODULE Spec2Model ----
(***************************************************************************)
(* Model of portfolio-fit's evidence-aware scoring core:                   *)
(*   - EnhancedRepositoryEvaluator.evaluate_all (portfolio_fit/scoring.py) *)
(*   - the calibration statistics (portfolio_fit/calibration.py)           *)
(*   - the tuning engine (portfolio_fit/tuning.py)                         *)
(*   - the profile recalibration workflow (portfolio_fit/recalibration.py) *)
(*   - the calibration report (portfolio_fit/calibration.py)               *)
(*   - stack profile detection (portfolio_fit/scoring.py)                  *)
(*   - the stratified golden-set selection (prepare_golden_set.py)         *)
(*                                                                         *)
(* Numbers.  Python floats are modelled by exact scaled integers:          *)
(*   scores and weights (max_score)   thousandths of a point               *)
(*   confidence                       hundredths                           *)
(*   round(x, 2) outputs              hundredths                           *)
(*   round(x, 3) outputs              thousandths                          *)
(*   ratios score / max_score         thousandths                          *)
(* Optional[T] is the empty sequence (None) or a one-element sequence.     *)
(*                                                                         *)
(* A correlation coefficient is kept exact, as its sign and the reduced    *)
(* fraction r^2 = p/q, so that equality and order of coefficients are      *)
(* exact; ranks are carried doubled.  Where the tuning engine does         *)
(* arithmetic on a coefficient it enters as its nearest multiple of 1e-4   *)
(* (coefficients are irrational in general).  Run against the Python code  *)
(* over the model's full-overlap tuning inputs, the suggested weights, the *)
(* median and the row order agree on every input with three repositories;  *)
(* with four, 4 inputs in 1728 differ, by 0.001 in single weights.         *)
(*                                                                         *)
(* In the recalibration workflow a file's content is identified by what it *)
(* was computed from; the numbers in it are the tuning engine's business.  *)
(***************************************************************************)
EXTENDS Integers, Sequences, FiniteSets, TLC

VARIABLES
    \* ---- evaluate_all ----
    stack_profile,          \* self.stack_profile (after _resolve_stack_profile)
    criterion_max_scores,   \* EvaluationConstants.CRITERION_MAX_SCORES in effect
    probe,                  \* what each evaluate_<criterion> probe passes to _make_result
    eval_pc,                \* "ready" | "done"
    criteria,               \* evaluate_all's local OrderedDict of CriterionResult
    probe_calls,            \* criteria whose probe was invoked
    results                 \* the dict evaluate_all returns

eval_vars == <<stack_profile, criterion_max_scores, probe, eval_pc, criteria,
               probe_calls, results>>

VARIABLES
    \* ---- calibration statistics ----
    cal_x, cal_y,           \* the two series handed to a calibration function
    cal_out                 \* [op |-> the function called, ...its result]

cal_vars == <<cal_x, cal_y, cal_out>>

VARIABLES
    \* ---- suggest_criterion_max_scores ----
    tune_labels,            \* labels: repo -> expert score
    tune_results,           \* results_map: repo -> result item
    tune_min_samples,
    tune_evidence,          \* by_criterion_samples / by_criterion_correlation
    tune_out                \* the returned report, or the error raised

tune_vars == <<tune_labels, tune_results, tune_min_samples, tune_evidence, tune_out>>

VARIABLES
    \* ---- run_profile_recalibration, apply_suggested_scores_to_config ----
    recal_args,             \* the arguments of the calls
    fs,                     \* path -> content of the file, None when absent
    backups,                \* backup timestamp -> content of that backup file
    clock,                  \* datetime.now(), in seconds
    recal_runs,             \* calls made so far
    recal_failed,           \* an I/O failure has happened (at most one does)
    recal_last              \* what the last call did and returned or raised

recal_vars == <<recal_args, fs, backups, clock, recal_runs, recal_failed, recal_last>>

VARIABLES
    \* ---- build_calibration_report ----
    report_labels,          \* expert_labels: repo -> expert score, as items in order
    report_scores,          \* model_scores: repo -> model score, as items in order
    report                  \* the returned report, None before the call

report_vars == <<report_labels, report_scores, report>>

VARIABLES
    \* ---- detect_stack_profile ----
    repo_tree,              \* what the repository directory holds
    detected                \* Optional: the profile detect_stack_profile returned

detect_vars == <<repo_tree, detected>>

VARIABLES
    \* ---- select_stratified ----
    select_results,         \* results: the rows of the evaluation JSON
    select_size,            \* size: the target number of rows
    selected                \* Optional: the rows select_stratified returned

select_vars == <<select_results, select_size, selected>>

vars == <<eval_vars, cal_vars, tune_vars, recal_vars, report_vars, detect_vars,
          select_vars>>

\* what each component leaves alone; EvaluationConstants.CRITERION_MAX_SCORES
\* (criterion_max_scores) is read by evaluation and tuning alike
not_eval_vars == <<cal_vars, tune_vars, recal_vars, report_vars, detect_vars,
                   select_vars>>
not_cal_vars == <<eval_vars, tune_vars, recal_vars, report_vars, detect_vars,
                  select_vars>>
not_tune_vars == <<stack_profile, probe, eval_pc, criteria, probe_calls, results,
                   criterion_max_scores, cal_vars, recal_vars, report_vars, detect_vars,
                   select_vars>>
not_recal_vars == <<eval_vars, cal_vars, tune_vars, report_vars, detect_vars,
                    select_vars>>
not_report_vars == <<eval_vars, cal_vars, tune_vars, recal_vars, detect_vars,
                     select_vars>>
not_detect_vars == <<eval_vars, cal_vars, tune_vars, recal_vars, report_vars,
                     select_vars>>
not_select_vars == <<eval_vars, cal_vars, tune_vars, recal_vars, report_vars,
                     detect_vars>>

----------------------------------------------------------------------------
\* Generic helpers

None == <<>>
Some(v) == <<v>>

Min(a, b) == IF a < b THEN a ELSE b
Max(a, b) == IF a > b THEN a ELSE b

RECURSIVE SumSeq(_)
SumSeq(s) == IF s = <<>> THEN 0 ELSE Head(s) + SumSeq(Tail(s))

\* Python round() of the exact quotient n/d (n >= 0, d > 0): half to even.
RoundDiv(n, d) ==
    LET q == n \div d
        r == n % d
    IN  IF 2 * r < d THEN q
        ELSE IF 2 * r > d THEN q + 1
        ELSE IF q % 2 = 0 THEN q ELSE q + 1

\* round(x, 2) of a value x given in thousandths; result in hundredths.
Round2(x) == RoundDiv(x, 10)

----------------------------------------------------------------------------
\* Module constants of scoring.py

NON_AUTO_STACK_PROFILES ==
    {"python_backend", "python_fullstack_react", "python_django_templates",
     "node_frontend", "mixed_unknown"}

\* Key order of CRITERION_MAX_SCORES / CRITERION_BLOCK and of the OrderedDict
\* evaluate_all builds.
CriterionKeys ==
    << "test_coverage", "code_complexity", "type_hints",
       "vulnerabilities", "dep_health", "security_scanning",
       "project_activity", "version_stability", "changelog",
       "docstrings", "logging", "structure",
       "readme", "api_docs", "getting_started",
       "docker", "cicd" >>

Criteria == {CriterionKeys[i] : i \in 1..Len(CriterionKeys)}

CRITERION_NOT_APPLICABLE_PROFILES ==
    [c \in Criteria |->
        CASE c = "test_coverage"     -> {"mixed_unknown"}
          [] c = "code_complexity"   -> {"node_frontend", "mixed_unknown"}
          [] c = "type_hints"        -> {"mixed_unknown"}
          [] c = "vulnerabilities"   -> {"mixed_unknown"}
          [] c = "dep_health"        -> {"mixed_unknown"}
          [] c = "security_scanning" -> {"mixed_unknown"}
          [] c = "docstrings"        -> {"node_frontend", "mixed_unknown"}
          [] c = "logging"           -> {"node_frontend", "mixed_unknown"}
          [] c = "api_docs"          -> {"node_frontend", "mixed_unknown"}
          [] OTHER                   -> {}]

BlockKeys ==
    << "block1_code_quality", "block2_security", "block3_maintenance",
       "block4_architecture", "block5_documentation", "block6_devops" >>

Blocks == {BlockKeys[i] : i \in 1..Len(BlockKeys)}

\* thousandths
BLOCK_MAX_SCORES ==
    [b \in Blocks |->
        CASE b = "block1_code_quality" -> 15000
          [] b = "block6_devops"       -> 5000
          [] OTHER                     -> 10000]

\* thousandths; the class-level defaults
CRITERION_MAX_SCORES ==
    [c \in Criteria |->
        CASE c \in {"test_coverage", "code_complexity", "type_hints",
                    "vulnerabilities", "project_activity", "docstrings",
                    "readme"} -> 5000
          [] c \in {"dep_health", "version_stability", "logging", "api_docs",
                    "docker"} -> 3000
          [] OTHER -> 2000]

CRITERION_BLOCK ==
    [c \in Criteria |->
        CASE c \in {"test_coverage", "code_complexity", "type_hints"}
                -> "block1_code_quality"
          [] c \in {"vulnerabilities", "dep_health", "security_scanning"}
                -> "block2_security"
          [] c \in {"project_activity", "version_stability", "changelog"}
                -> "block3_maintenance"
          [] c \in {"docstrings", "logging", "structure"}
                -> "block4_architecture"
          [] c \in {"readme", "api_docs", "getting_started"}
                -> "block5_documentation"
          [] OTHER -> "block6_devops"]

CRITERION_METHOD ==
    [c \in Criteria |->
        IF c \in {"test_coverage", "code_complexity", "type_hints", "dep_health",
                  "project_activity", "version_stability", "docstrings"}
        THEN "measured" ELSE "heuristic"]

\* points
TOTAL_MAX_SCORE == 50

----------------------------------------------------------------------------
\* EnhancedRepositoryEvaluator: one criterion

_is_criterion_applicable_always(criterion_key) == TRUE

_is_criterion_applicable(criterion_key) ==
    stack_profile \notin CRITERION_NOT_APPLICABLE_PROFILES[criterion_key]

\* max(0.0, min(float(confidence), 1.0)), in hundredths
ClampConfidence(confidence) == Max(0, Min(confidence, 100))

_make_result(key, score, status, method, confidence) ==
    LET max_score == criterion_max_scores[key]
        resolved_method == IF method = None THEN CRITERION_METHOD[key] ELSE method[1]
    IN  IF status = "not_applicable" THEN
            [score |-> None, max_score |-> max_score, status |-> "not_applicable",
             method |-> resolved_method,
             confidence |-> IF confidence = None THEN 100
                            ELSE ClampConfidence(confidence[1])]
        ELSE IF score = None THEN
            [score |-> None, max_score |-> max_score, status |-> "unknown",
             method |-> resolved_method,
             confidence |-> IF confidence = None THEN 0
                            ELSE ClampConfidence(confidence[1])]
        ELSE
            [score |-> Some(Max(0, Min(score[1], max_score))),
             max_score |-> max_score, status |-> status,
             method |-> resolved_method,
             confidence |-> IF confidence = None
                            THEN (IF resolved_method = "measured" THEN 85 ELSE 60)
                            ELSE ClampConfidence(confidence[1])]

_make_not_applicable_result(key) ==
    _make_result(key, None, "not_applicable", None, Some(100))

\* evaluator() is the probe: it hands its finding to _make_result.
_evaluate_criterion(criterion_key, evaluator) ==
    IF ~_is_criterion_applicable(criterion_key)
    THEN _make_not_applicable_result(criterion_key)
    ELSE _make_result(criterion_key, evaluator.score, evaluator.status,
                      evaluator.method, evaluator.confidence)

----------------------------------------------------------------------------
\* evaluate_all: aggregation

IsKnown(item) == item.score # None /\ item.status = "known"

\* sum(item.score for item in items), sum(item.max_score for item in items)
SumScores(items) == SumSeq([i \in 1..Len(items) |-> items[i].score[1]])
SumMaxScores(items) == SumSeq([i \in 1..Len(items) |-> items[i].max_score])

\* every record of the block, the not_applicable ones included
applicable_items_unfiltered(crit, keys) == [i \in 1..Len(keys) |-> crit[keys[i]]]

\* [criteria[key] for key in keys if criteria[key].status != "not_applicable"]
applicable_items(crit, keys) ==
    LET IsApplicableKey(k) == crit[k].status # "not_applicable"
        ks == SelectSeq(keys, IsApplicableKey)
    IN  [i \in 1..Len(ks) |-> crit[ks[i]]]

known_items(crit, keys) == SelectSeq(applicable_items(crit, keys), IsKnown)

\* block_criteria: keys of CRITERION_BLOCK mapped to block_key, in dict order
block_criteria(block_key) ==
    LET InBlock(k) == CRITERION_BLOCK[k] = block_key
    IN  SelectSeq(CriterionKeys, InBlock)

\* a blocks_meta entry whose score is the known score itself, not rescaled to
\* the block budget
block_meta_unscaled(crit, keys, block_max) ==
    LET known_score == SumScores(known_items(crit, keys))
        known_max == SumMaxScores(known_items(crit, keys))
        applicable_max == SumMaxScores(applicable_items(crit, keys))
    IN  [score |-> IF known_max > 0 THEN Some(Round2(known_score)) ELSE None,
         known_score |-> Round2(known_score),
         known_max |-> Round2(known_max),
         applicable_max |-> Round2(applicable_max),
         max_score |-> Round2(block_max),
         data_coverage_percent |-> IF applicable_max > 0
                                   THEN RoundDiv(known_max * 100 * 100, applicable_max)
                                   ELSE 0]

\* One blocks_meta entry, computed over the criteria named by keys.
block_meta(crit, keys, block_max) ==
    LET known_score == SumScores(known_items(crit, keys))
        known_max == SumMaxScores(known_items(crit, keys))
        applicable_max == SumMaxScores(applicable_items(crit, keys))
    IN  [score |-> IF known_max > 0
                   THEN Some(RoundDiv(known_score * block_max, known_max * 10))
                   ELSE None,
         known_score |-> Round2(known_score),
         known_max |-> Round2(known_max),
         applicable_max |-> Round2(applicable_max),
         max_score |-> Round2(block_max),
         data_coverage_percent |-> IF applicable_max > 0
                                   THEN RoundDiv(known_max * 100 * 100, applicable_max)
                                   ELSE 0]

applicable_total_max(crit, keys) ==
    SumMaxScores(applicable_items(crit, keys))

known_total_score(crit, keys) ==
    LET IsKnownKey(k) == IsKnown(crit[k])
        ks == SelectSeq(keys, IsKnownKey)
    IN  SumSeq([i \in 1..Len(ks) |-> crit[ks[i]].score[1]])

\* the naive denominator: every applicable criterion, Unknown ones included
known_total_max_naive(crit, keys) == applicable_total_max(crit, keys)

known_total_max(crit, keys) ==
    LET IsKnownKey(k) == IsKnown(crit[k])
        ks == SelectSeq(keys, IsKnownKey)
    IN  SumSeq([i \in 1..Len(ks) |-> crit[ks[i]].max_score])

\* total_score before rounding is (known_total_score / known_total_max) * TOTAL_MAX_SCORE;
\* the value returned is round(total_score, 2), in hundredths.
total_score(crit, keys) ==
    IF known_total_max(crit, keys) > 0
    THEN RoundDiv(known_total_score(crit, keys) * TOTAL_MAX_SCORE * 100,
                  known_total_max(crit, keys))
    ELSE 0

\* the ratio taken the wrong way round: applicable max over known max
data_coverage_exact_inverted(crit, keys) ==
    IF known_total_max(crit, keys) > 0
    THEN [num |-> applicable_total_max(crit, keys) * 100,
          den |-> known_total_max(crit, keys)]
    ELSE [num |-> 0, den |-> 1]

\* data_coverage_percent before rounding, as the exact fraction num/den (percent)
data_coverage_exact(crit, keys) ==
    IF applicable_total_max(crit, keys) > 0
    THEN [num |-> known_total_max(crit, keys) * 100,
          den |-> applicable_total_max(crit, keys)]
    ELSE [num |-> 0, den |-> 1]

\* round(data_coverage_percent, 2), in hundredths of a percent
data_coverage_percent(crit, keys) ==
    LET cov == data_coverage_exact(crit, keys)
    IN  RoundDiv(cov.num * 100, cov.den)

----------------------------------------------------------------------------
\* evaluate_all: data-quality warnings, status, category

\* A warning string; level is its "critical:" / "warning:" prefix, keys the
\* criteria it names, value the number it prints.
Warning(level, text, keys, value) ==
    [level |-> level, text |-> text, keys |-> keys, value |-> value]

\* a core list that leaves vulnerabilities out
SortedCoreCriteriaShort == << "code_complexity", "test_coverage" >>

\* sorted(("test_coverage", "code_complexity", "vulnerabilities"))
SortedCoreCriteria == << "code_complexity", "test_coverage", "vulnerabilities" >>

\* data_coverage_percent < threshold, on the exact fraction
CoverageBelow(cov, threshold) == cov.num < threshold * cov.den

_build_data_quality_warnings(crit, cov) ==
    LET coverage_warning ==
            IF CoverageBelow(cov, 40)
            THEN << Warning("critical", "data coverage below 40%", <<>>, 0) >>
            ELSE IF CoverageBelow(cov, 60)
            THEN << Warning("warning", "data coverage below 60%", <<>>, 0) >>
            ELSE <<>>
        IsUnknownCore(key) ==
            /\ key \in DOMAIN crit
            /\ crit[key].status # "not_applicable"
            /\ \/ crit[key].status = "unknown"
               \/ crit[key].score = None
               \/ crit[key].confidence <= 0
        unknown_core == SelectSeq(SortedCoreCriteria, IsUnknownCore)
        core_warning ==
            IF unknown_core # <<>>
            THEN << Warning("critical", "missing core evidence for", unknown_core, 0) >>
            ELSE <<>>
        IsKnownKey(k) == k \in DOMAIN crit /\ IsKnown(crit[k])
        known_keys == SelectSeq(CriterionKeys, IsKnownKey)
        known_confidences == [i \in 1..Len(known_keys) |-> crit[known_keys[i]].confidence]
        confidence_warning ==
            IF known_confidences # <<>>
            THEN IF SumSeq(known_confidences) < 65 * Len(known_confidences)
                 THEN << Warning("warning", "average criterion confidence is low", <<>>,
                                 RoundDiv(SumSeq(known_confidences),
                                          Len(known_confidences))) >>
                 ELSE <<>>
            ELSE << Warning("critical", "no measurable criteria available", <<>>, 0) >>
    IN  coverage_warning \o core_warning \o confidence_warning

\* item.startswith("critical:")
IsCritical(item) == item.level = "critical"

\* a status computed from the first warning alone
data_quality_status_first_only(quality_warnings) ==
    IF quality_warnings # <<>> /\ IsCritical(quality_warnings[1]) THEN "red"
    ELSE IF quality_warnings # <<>> THEN "yellow"
    ELSE "green"

data_quality_status(quality_warnings) ==
    IF \E i \in 1..Len(quality_warnings) : IsCritical(quality_warnings[i]) THEN "red"
    ELSE IF quality_warnings # <<>> THEN "yellow"
    ELSE "green"

\* score and data_coverage_percent are the rounded values of the result dict
\* (hundredths).
_categorize(score, coverage_percent) ==
    IF coverage_percent < 40 * 100 THEN "Insufficient data"
    ELSE IF score >= 40 * 100 THEN "Perfect"
    ELSE IF score >= 30 * 100 THEN "Excellent"
    ELSE IF score >= 20 * 100 THEN "Good"
    ELSE IF score >= 10 * 100 THEN "Average"
    ELSE "Parking"

\* The dict evaluate_all returns, from its local criteria.
BuildResults(crit) ==
    LET quality_warnings ==
            _build_data_quality_warnings(crit, data_coverage_exact(crit, CriterionKeys))
    IN  [stack_profile |-> stack_profile,
         total_score |-> total_score(crit, CriterionKeys),
         max_score |-> TOTAL_MAX_SCORE * 100,
         raw_max_score |-> Round2(applicable_total_max(crit, CriterionKeys)),
         known_score |-> Round2(known_total_score(crit, CriterionKeys)),
         known_max_score |-> Round2(known_total_max(crit, CriterionKeys)),
         data_coverage_percent |-> data_coverage_percent(crit, CriterionKeys),
         blocks_meta |-> [b \in Blocks |->
                            block_meta(crit, block_criteria(b), BLOCK_MAX_SCORES[b])],
         scores |-> [c \in Criteria |->
                        IF crit[c].score # None THEN Some(Round2(crit[c].score[1]))
                        ELSE None],
         criteria_meta |-> [c \in Criteria |->
                              [max_score |-> crit[c].max_score,
                               status |-> crit[c].status,
                               method |-> crit[c].method,
                               confidence |-> crit[c].confidence]],
         data_quality_warnings |-> quality_warnings,
         data_quality_status |-> data_quality_status(quality_warnings),
         category |-> _categorize(total_score(crit, CriterionKeys),
                                  data_coverage_percent(crit, CriterionKeys))]

----------------------------------------------------------------------------
\* evaluate_all: inputs and the operation

MaxDeviations == 1

RECURSIVE SubsetsUpTo(_, _)
SubsetsUpTo(S, k) ==
    IF k = 0 THEN {{}}
    ELSE LET P == SubsetsUpTo(S, k - 1)
         IN  P \cup {p \cup {x} : p \in P, x \in S}

\* What a probe can hand to _make_result: (score, status, method, confidence).
\* Scores above max_score and below 0 occur; _make_result clamps them.
ProbeOutcomes ==
    { [score |-> None, status |-> "known", method |-> None, confidence |-> None],
      [score |-> Some(9000), status |-> "known", method |-> None,
       confidence |-> Some(90)],
      [score |-> Some(1500), status |-> "known", method |-> Some("heuristic"),
       confidence |-> Some(40)],
      [score |-> Some(0), status |-> "known", method |-> None, confidence |-> None] }

\* evaluate_type_hints alone can itself answer not_applicable.
ProbeNotApplicable ==
    [score |-> None, status |-> "not_applicable", method |-> None,
     confidence |-> Some(100)]

ProbeOutcomesOf(c) ==
    IF c = "type_hints" THEN ProbeOutcomes \cup {ProbeNotApplicable} ELSE ProbeOutcomes

\* Repositories that are uniform except for at most MaxDeviations criteria.
DeviationWorlds ==
    UNION { UNION { { [c \in Criteria |-> IF c \in D THEN d[c] ELSE base] :
                      d \in { f \in [D -> ProbeOutcomes \cup {ProbeNotApplicable}] :
                                \A c \in D : f[c] \in ProbeOutcomesOf(c) } } :
                    D \in SubsetsUpTo(Criteria, MaxDeviations) } :
            base \in ProbeOutcomes }

\* Repositories whose probes find one thing for the first k criteria and
\* another for the rest.
SplitWorlds ==
    { [c \in Criteria |->
         IF \E i \in 1..k : CriterionKeys[i] = c THEN first ELSE rest] :
      k \in 0..Len(CriterionKeys), first \in ProbeOutcomes, rest \in ProbeOutcomes }

\* A probe that passes status="unknown" to _make_result together with a
\* score: _make_result keeps both, so the record says unknown and has a value.
ProbeInconsistent ==
    [score |-> Some(1500), status |-> "unknown", method |-> None,
     confidence |-> None]

\* Repositories in which exactly one probe does that.
InconsistentWorlds ==
    { [c \in Criteria |-> IF c = bad THEN ProbeInconsistent ELSE base] :
      bad \in Criteria, base \in ProbeOutcomes }

\* Repositories whose probes find evidence for test_coverage, the security
\* block, project_activity, changelog and structure, and nothing else: under
\* the tuned block1 weights below their known maximum is 23.998 of 60.
EvidenceCriteria ==
    {"test_coverage", "vulnerabilities", "dep_health", "security_scanning",
     "project_activity", "changelog", "structure"}

EvidenceWorlds ==
    { [c \in Criteria |->
         IF c \in EvidenceCriteria THEN found
         ELSE [score |-> None, status |-> "known", method |-> None,
               confidence |-> None]] :
      found \in ProbeOutcomes }

ProbeWorlds ==
    DeviationWorlds \cup SplitWorlds \cup InconsistentWorlds \cup EvidenceWorlds

\* Effective CRITERION_MAX_SCORES after _apply_external_scoring_config: the
\* defaults, a scoring_config.json that zeroes every weight, and one that
\* carries tuned 3-decimal weights for block1.
WeightConfigs ==
    { CRITERION_MAX_SCORES,
      [c \in Criteria |-> 0],
      [CRITERION_MAX_SCORES EXCEPT !["test_coverage"] = 4998,
                                   !["code_complexity"] = 5417,
                                   !["type_hints"] = 4585] }

EvalInit ==
    /\ stack_profile \in NON_AUTO_STACK_PROFILES
    /\ criterion_max_scores \in WeightConfigs
    /\ probe \in ProbeWorlds
    /\ eval_pc = "ready"
    /\ criteria = <<>>
    /\ probe_calls = {}
    /\ results = None

EvaluateAll ==
    /\ eval_pc = "ready"
    /\ criteria' = [c \in Criteria |-> _evaluate_criterion(c, probe[c])]
    /\ results' = BuildResults(criteria')
    /\ probe_calls' = {c \in Criteria : _is_criterion_applicable(c)}
    /\ eval_pc' = "done"
    /\ UNCHANGED <<stack_profile, criterion_max_scores, probe>>
    /\ UNCHANGED not_eval_vars

EvalNext == EvaluateAll

----------------------------------------------------------------------------
\* calibration.py: _rank, pearson_correlation, spearman_correlation,
\* mean_absolute_error

RECURSIVE Gcd(_, _)
Gcd(a, b) == IF b = 0 THEN a ELSE Gcd(b, a % b)

Abs(a) == IF a < 0 THEN -a ELSE a

RECURSIVE GcdSeq(_)
GcdSeq(s) == IF s = <<>> THEN 0 ELSE Gcd(Abs(Head(s)), GcdSeq(Tail(s)))

\* sorted(enumerate(values), key=lambda item: item[1]), as the sequence of the
\* original (1-based) indexes; sorted() is stable.
RECURSIVE SortedIndexes(_, _)
SortedIndexes(values, n) ==
    IF n = 0 THEN <<>>
    ELSE LET before == SortedIndexes(values, n - 1)
             pos == Cardinality({k \in 1..Len(before) :
                                    values[before[k]] <= values[n]})
         IN  SubSeq(before, 1, pos) \o <<n>> \o SubSeq(before, pos + 1, Len(before))

\* the inner while loop of _rank: the last 0-based position j >= i of the run
\* of values equal to the one at position i
RECURSIVE GroupEnd(_, _, _, _)
GroupEnd(values, indexed, i, j) ==
    IF j + 1 < Len(indexed) /\ values[indexed[j + 2]] = values[indexed[i + 1]]
    THEN GroupEnd(values, indexed, i, j + 1)
    ELSE j

\* the outer while loop of _rank, from 0-based position i on.  Ranks are
\* carried doubled: avg_rank = (i + j) / 2.0 + 1.0 is stored as i + j + 2.
RECURSIVE RankLoop(_, _, _, _)
RankLoop(values, indexed, i, ranks) ==
    IF i >= Len(indexed) THEN ranks
    ELSE LET j == GroupEnd(values, indexed, i, i)
             avg_rank == i + j + 2
             group == {indexed[k + 1] : k \in i..j}
         IN  RankLoop(values, indexed, j + 1,
                      [k \in DOMAIN ranks |-> IF k \in group THEN avg_rank ELSE ranks[k]])

\* first-occurrence ranking: every value gets its own position in sorted order
_rank_ordinal(values) ==
    LET indexed == SortedIndexes(values, Len(values))
    IN  [k \in 1..Len(values) |->
            2 * (CHOOSE pos \in 1..Len(indexed) : indexed[pos] = k)]

_rank(values) ==
    RankLoop(values, SortedIndexes(values, Len(values)), 0,
             [k \in 1..Len(values) |-> 0])

\* Binary64 arithmetic.  A double > 0 is [m, e]: its 53-bit mantissa m (2^52 <=
\* m < 2^53) and the exponent e of the mantissa's unit bit, value m * 2^e.  A
\* mantissa, and every wider intermediate, is a 4-limb number <<l0, l1, l2, l3>>
\* of value l0 + l1 * B + l2 * B^2 + l3 * B^3 with B = LimbBase = 2^LimbBits,
\* so that no step leaves the 32-bit integers.  MantissaTop = 2^26 is limb l1 of
\* 2^53.

LimbBits == 27
LimbBase == 134217728
MantissaBits == 53
MantissaTop == 67108864
ChunkBits == 20

BigZero == <<0, 0, 0, 0>>

BigOf(k) == <<k % LimbBase, k \div LimbBase, 0, 0>>

BigAdd(a, b) ==
    LET s0 == a[1] + b[1]
        s1 == a[2] + b[2] + (s0 \div LimbBase)
        s2 == a[3] + b[3] + (s1 \div LimbBase)
        s3 == a[4] + b[4] + (s2 \div LimbBase)
    IN  <<s0 % LimbBase, s1 % LimbBase, s2 % LimbBase, s3>>

\* a - b for a >= b
BigSub(a, b) ==
    LET d0 == a[1] - b[1]
        d1 == a[2] - b[2] - (IF d0 < 0 THEN 1 ELSE 0)
        d2 == a[3] - b[3] - (IF d1 < 0 THEN 1 ELSE 0)
        d3 == a[4] - b[4] - (IF d2 < 0 THEN 1 ELSE 0)
    IN  <<d0 % LimbBase, d1 % LimbBase, d2 % LimbBase, d3>>

BigLess(a, b) ==
    \E i \in 1..4 : a[i] < b[i] /\ \A j \in (i + 1)..4 : a[j] = b[j]

BigOdd(a) == a[1] % 2 = 1

\* a >= 2^53
Over53(a) == a[4] > 0 \/ a[3] > 0 \/ a[2] >= MantissaTop

Limb(a, i) == IF i \in 1..4 THEN a[i] ELSE 0

\* a * 2^s and floor(a / 2^s)
ShlLimb(a, i, w, b) ==
    (Limb(a, i - w) % 2^(LimbBits - b)) * 2^b + (Limb(a, i - w - 1) \div 2^(LimbBits - b))

BigShl(a, s) ==
    LET w == s \div LimbBits
        b == s % LimbBits
    IN  <<ShlLimb(a, 1, w, b), ShlLimb(a, 2, w, b), ShlLimb(a, 3, w, b),
          ShlLimb(a, 4, w, b)>>

ShrLimb(a, i, w, b) ==
    (Limb(a, i + w) \div 2^b) + (Limb(a, i + w + 1) % 2^b) * 2^(LimbBits - b)

BigShr(a, s) ==
    LET w == s \div LimbBits
        b == s % LimbBits
    IN  <<ShrLimb(a, 1, w, b), ShrLimb(a, 2, w, b), ShrLimb(a, 3, w, b),
          ShrLimb(a, 4, w, b)>>

\* the number of bits of a
BitLen(a) ==
    IF a = BigZero THEN 0
    ELSE LET top == CHOOSE i \in 1..4 : a[i] > 0 /\ \A j \in (i + 1)..4 : a[j] = 0
         IN  (top - 1) * LimbBits
             + (CHOOSE n \in 1..LimbBits : a[top] < 2^n /\ a[top] >= 2^(n - 1))

\* x * y for two limbs, from their 14-bit and 13-bit halves
LimbMul(x, y) ==
    LET x0 == x % 16384
        x1 == x \div 16384
        y0 == y % 16384
        y1 == y \div 16384
    IN  BigAdd(BigAdd(BigShl(BigOf(x1 * y1), 28), BigShl(BigOf(x1 * y0 + x0 * y1), 14)),
               BigOf(x0 * y0))

\* a * b for a, b < 2^54
BigMul(a, b) ==
    BigAdd(BigAdd(LimbMul(a[1], b[1]),
                  BigShl(BigAdd(LimbMul(a[1], b[2]), LimbMul(a[2], b[1])), LimbBits)),
           BigShl(LimbMul(a[2], b[2]), 2 * LimbBits))

\* m * 2^e rounded half-even to 53 bits; sticky says that the exact value lies
\* strictly above m * 2^e (by less than 2^e)
Round53(m, e, sticky) ==
    LET s == IF Over53(m) THEN BitLen(m) - MantissaBits ELSE 0
        q == BigShr(m, s)
        rest == BigSub(m, BigShl(q, s))
        half == BigShl(BigOf(1), s - 1)
        up == s > 0 /\ (\/ BigLess(half, rest)
                        \/ rest = half /\ (sticky \/ BigOdd(q)))
        sum == BigAdd(q, BigOf(1))
    IN  IF ~up THEN [m |-> q, e |-> e + s]
        ELSE IF Over53(sum) THEN [m |-> BigShr(sum, 1), e |-> e + s + 1]
        ELSE [m |-> sum, e |-> e + s]

FloatZero == [m |-> BigZero, e |-> 0]

\* one more bit of the binary expansion of (q + r / d) * 2^e, unless 54 bits
\* stand already
DivStep(s, d) ==
    IF Over53(s.q) THEN s
    ELSE LET r2 == BigAdd(s.r, s.r)
             q2 == BigAdd(s.q, s.q)
         IN  IF BigLess(r2, d) THEN [q |-> q2, r |-> r2, e |-> s.e - 1]
             ELSE [q |-> BigAdd(q2, BigOf(1)), r |-> BigSub(r2, d), e |-> s.e - 1]

RECURSIVE DivBits(_, _)
DivBits(s, d) ==
    IF Over53(s.q) THEN Round53(s.q, s.e, s.r # BigZero)
    ELSE LET s1 == DivStep(s, d)
             s2 == DivStep(s1, d)
             s3 == DivStep(s2, d)
             s4 == DivStep(s3, d)
             s5 == DivStep(s4, d)
             s6 == DivStep(s5, d)
             s7 == DivStep(s6, d)
             s8 == DivStep(s7, d)
         IN  DivBits(s8, d)

\* float(k) for an integer 0 <= k < 2^31
FloatOfInt(k) ==
    IF k = 0 THEN FloatZero
    ELSE LET s == MantissaBits - BitLen(BigOf(k))
         IN  [m |-> BigShl(BigOf(k), s), e |-> -s]

\* ChunkBits more bits of the binary expansion of (q + r / d) * 2^e for a
\* divisor d < 2^11, until 54 bits stand
RECURSIVE DivChunks(_, _, _, _)
DivChunks(q, r, d, e) ==
    IF Over53(q) THEN Round53(q, e, r # 0)
    ELSE LET t == r * 2^ChunkBits
         IN  DivChunks(BigAdd(BigShl(q, ChunkBits), BigOf(t \div d)), t % d, d,
                       e - ChunkBits)

\* the double nearest to k / unit, for integers 0 <= k and 0 < unit < 2^11
FloatOf(k, unit) ==
    IF k = 0 THEN FloatZero
    ELSE IF unit = 1 THEN FloatOfInt(k)
    ELSE DivChunks(BigOf(k \div unit), k % unit, unit, 0)

\* a / n for a double a >= 0 and an integer 0 < n < 16
FloatDivInt(a, n) ==
    IF a = FloatZero THEN FloatZero
    ELSE LET r1 == a.m[2] % n
             t == r1 * LimbBase + a.m[1]
         IN  DivChunks(<<t \div n, a.m[2] \div n, 0, 0>>, t % n, n, a.e)

\* a + b for doubles a, b >= 0 whose exponents differ by less than 54
FloatAdd(a, b) ==
    IF a = FloatZero THEN b
    ELSE IF b = FloatZero THEN a
    ELSE LET big == IF a.e >= b.e THEN a ELSE b
             small == IF a.e >= b.e THEN b ELSE a
         IN  Round53(BigAdd(BigShl(big.m, big.e - small.e), small.m), small.e, FALSE)

FloatMul(a, b) ==
    IF a = FloatZero \/ b = FloatZero THEN FloatZero
    ELSE Round53(BigMul(a.m, b.m), a.e + b.e, FALSE)

\* a / b for doubles a >= 0 and b > 0
FloatDiv(a, b) ==
    IF a = FloatZero THEN FloatZero
    ELSE IF BigLess(a.m, b.m)
    THEN DivBits([q |-> BigZero, r |-> a.m, e |-> a.e - b.e], b.m)
    ELSE DivBits([q |-> BigOf(1), r |-> BigSub(a.m, b.m), e |-> a.e - b.e], b.m)

\* one step of the digit-by-digit square root: bit runs down the powers of 4
SqrtStep(s) ==
    IF s.bit = BigZero THEN s
    ELSE LET t == BigAdd(s.res, s.bit)
         IN  IF BigLess(s.n, t)
             THEN [n |-> s.n, res |-> BigShr(s.res, 1), bit |-> BigShr(s.bit, 2)]
             ELSE [n |-> BigSub(s.n, t), res |-> BigAdd(BigShr(s.res, 1), s.bit),
                   bit |-> BigShr(s.bit, 2)]

RECURSIVE BigSqrtLoop(_)
BigSqrtLoop(s) ==
    IF s.bit = BigZero THEN s
    ELSE LET s1 == SqrtStep(s)
             s2 == SqrtStep(s1)
             s3 == SqrtStep(s2)
             s4 == SqrtStep(s3)
             s5 == SqrtStep(s4)
             s6 == SqrtStep(s5)
             s7 == SqrtStep(s6)
             s8 == SqrtStep(s7)
         IN  BigSqrtLoop(s8)

\* math.sqrt(k) for an integer k > 0: k * 4^t has 107 or 108 bits, so that its
\* integer root has 54
FloatSqrt(k) ==
    IF k = 0 THEN FloatZero
    ELSE LET t == (4 * LimbBits - BitLen(BigOf(k))) \div 2
             s == BigSqrtLoop([n |-> BigShl(BigOf(k), 2 * t), res |-> BigZero,
                               bit |-> BigShl(BigOf(1), 4 * LimbBits - 2)])
         IN  Round53(s.res, -t, s.n # BigZero)

\* a < b for doubles a, b >= 0
FloatLess(a, b) ==
    IF b = FloatZero THEN FALSE
    ELSE IF a = FloatZero THEN TRUE
    ELSE a.e < b.e \/ (a.e = b.e /\ BigLess(a.m, b.m))

\* sum(values) for a series of n copies of the double v: left to right from 0
RECURSIVE FloatSumOfCopies(_, _)
FloatSumOfCopies(v, n) ==
    IF n = 0 THEN FloatZero ELSE FloatAdd(FloatSumOfCopies(v, n - 1), v)

\* _mean(values) for a series of n > 0 copies of the double v
_mean(v, n) == FloatDivInt(FloatSumOfCopies(v, n), n)

\* A correlation coefficient r = num / sqrt(den), kept exact as its sign and the
\* reduced fraction p/q = r^2.
Corr(num, dx, dy) ==
    LET a == Abs(num)
        g1 == Gcd(a, dx)
        g2 == Gcd(a, dy)
        n1 == a \div g1
        d1 == dx \div g1
        n2 == a \div g2
        d2 == dy \div g2
        h1 == Gcd(n1, d2)
        h2 == Gcd(n2, d1)
    IN  IF num = 0 THEN [sign |-> 0, p |-> 0, q |-> 1]
        ELSE [sign |-> IF num > 0 THEN 1 ELSE -1,
              p |-> (n1 \div h1) * (n2 \div h2),
              q |-> (d1 \div h2) * (d2 \div h1)]

\* The deviations a - mean_x are taken as n * a - sum(x), divided by their
\* common factor: r does not change under a positive rescaling of a series.
Deviations(x) ==
    LET raw == [i \in 1..Len(x) |-> Len(x) * x[i] - SumSeq(x)]
        g == GcdSeq(raw)
    IN  IF g = 0 THEN raw ELSE [i \in 1..Len(x) |-> raw[i] \div g]

\* scores are carried in hundredths of a point, the ranks of _rank in halves
ScoreUnit == 100
RankUnit == 2

IsConstant(x) == \A i \in 1..Len(x) : x[i] = x[1]

\* sum((a - mean_x) ** 2) == 0.0: every a equals the mean as _mean computes
\* it, which for a series of equal values is not always that value.  Whole
\* numbers and halves of this size add and divide without rounding.
ZeroSpread(x, unit) ==
    /\ IsConstant(x)
    /\ \/ unit \in {1, RankUnit}
       \/ LET v == FloatOf(x[1], unit) IN _mean(v, Len(x)) = v

\* numerator / denominator when one series is constant and its computed mean
\* is off by a rounding error: a quotient of accumulated rounding errors,
\* some float in [-1, 1] that the model does not compute.
RoundingNoise == [sign |-> 0, p |-> 0, q |-> 1, noise |-> TRUE]

pearson_correlation_of(x, y, unit) ==
    IF Len(x) # Len(y) \/ Len(x) < 2 THEN None
    ELSE IF ZeroSpread(x, unit) \/ ZeroSpread(y, unit) THEN None
    ELSE IF IsConstant(x) \/ IsConstant(y) THEN Some(RoundingNoise)
    ELSE LET da == Deviations(x)
             db == Deviations(y)
             numerator == SumSeq([i \in 1..Len(x) |-> da[i] * db[i]])
             denom_x == SumSeq([i \in 1..Len(x) |-> da[i] * da[i]])
             denom_y == SumSeq([i \in 1..Len(y) |-> db[i] * db[i]])
         IN  Some(Corr(numerator, denom_x, denom_y))

pearson_correlation(x, y) == pearson_correlation_of(x, y, ScoreUnit)

spearman_correlation(x, y) ==
    IF Len(x) # Len(y) \/ Len(x) < 2 THEN None
    ELSE pearson_correlation_of(_rank(x), _rank(y), RankUnit)

\* sum(abs(a - b)) / len(x), as the exact fraction num/den
mean_absolute_error(x, y) ==
    IF Len(x) # Len(y) \/ Len(x) < 1 THEN None
    ELSE Some([num |-> SumSeq([i \in 1..Len(x) |-> Abs(x[i] - y[i])]),
               den |-> Len(x)])

----------------------------------------------------------------------------
\* Calibration statistics: inputs and calls

MaxSeriesLen == 4
MaxMismatchLen == 2

\* expert scores and model scores, in hundredths of a point
XValues == {1, 2, 4}
YValues == {10, 20, 40}

SeqsOfLen(V, n) == [1..n -> V]

SeriesPairs ==
    UNION { SeqsOfLen(XValues, n) \X SeqsOfLen(YValues, n) : n \in 0..MaxSeriesLen }
    \cup UNION { SeqsOfLen(XValues, n) \X SeqsOfLen(YValues, m) :
                 n \in 0..MaxMismatchLen, m \in 0..MaxMismatchLen }

CalInit ==
    /\ \E pair \in SeriesPairs : cal_x = pair[1] /\ cal_y = pair[2]
    /\ cal_out = [op |-> "none"]

CallPearson ==
    /\ cal_out.op = "none"
    /\ cal_out' = [op |-> "pearson_correlation",
                   value |-> pearson_correlation(cal_x, cal_y)]
    /\ UNCHANGED <<cal_x, cal_y>>
    /\ UNCHANGED not_cal_vars

\* ranks_x and ranks_y are the locals of spearman_correlation (empty when it
\* returns before ranking).
CallSpearman ==
    /\ cal_out.op = "none"
    /\ cal_out' = [op |-> "spearman_correlation",
                   value |-> spearman_correlation(cal_x, cal_y),
                   ranks_x |-> IF Len(cal_x) # Len(cal_y) \/ Len(cal_x) < 2
                               THEN <<>> ELSE _rank(cal_x),
                   ranks_y |-> IF Len(cal_x) # Len(cal_y) \/ Len(cal_x) < 2
                               THEN <<>> ELSE _rank(cal_y)]
    /\ UNCHANGED <<cal_x, cal_y>>
    /\ UNCHANGED not_cal_vars

CallMeanAbsoluteError ==
    /\ cal_out.op = "none"
    /\ cal_out' = [op |-> "mean_absolute_error",
                   value |-> mean_absolute_error(cal_x, cal_y)]
    /\ UNCHANGED <<cal_x, cal_y>>
    /\ UNCHANGED not_cal_vars

CalNext == CallPearson \/ CallSpearman \/ CallMeanAbsoluteError

----------------------------------------------------------------------------
\* tuning.py: _criterion_ratio, suggest_criterion_max_scores
\*
\* Units: a ratio is in thousandths, a correlation that enters arithmetic is
\* in units of 1e-4 (its nearest multiple), a factor is in units of 5e-6
\* (1.0 = 200000), weights are in thousandths of a point.

RatioUnit == 1000
CorrUnit == 10000
FactorUnit == 200000

\* floor(sqrt(n)) by bisection on lo..hi
RECURSIVE IsqrtIn(_, _, _)
IsqrtIn(n, lo, hi) ==
    IF lo >= hi THEN lo
    ELSE LET mid == (lo + hi + 1) \div 2
         IN  IF mid * mid <= n THEN IsqrtIn(n, mid, hi) ELSE IsqrtIn(n, lo, mid - 1)

\* round(corr, 4) in units of 1e-4: with m = floor(2 * 10^4 * |r|),
\* |r| rounds to (m + 1) \div 2.
CorrRound4(corr) ==
    LET k == 2 * CorrUnit
        t == corr.p * k
        scaled == (t \div corr.q) * k + ((t % corr.q) * k) \div corr.q
        m == IsqrtIn(scaled, 0, k)
    IN  corr.sign * ((m + 1) \div 2)

\* sign of (a - b) for two exact correlations
CorrCompare(a, b) ==
    IF a.sign # b.sign THEN (IF a.sign < b.sign THEN -1 ELSE 1)
    ELSE LET l == a.p * b.q
             r == b.p * a.q
         IN  IF l = r THEN 0
             ELSE IF (l < r) = (a.sign >= 0) THEN -1 ELSE 1

\* round(a * b / c) of the exact quotient, by binary long division over the
\* bits of b (a * b itself may not fit the integer width)
RECURSIVE MulDivQR(_, _, _)
MulDivQR(a, b, c) ==
    IF b = 0 THEN [q |-> 0, r |-> 0]
    ELSE LET h == MulDivQR(a, b \div 2, c)
             t == 2 * h.r + a * (b % 2)
         IN  [q |-> 2 * h.q + t \div c, r |-> t % c]

MulDivRound(a, b, c) ==
    LET d == MulDivQR(a, b, c)
    IN  IF 2 * d.r < c THEN d.q
        ELSE IF 2 * d.r > c THEN d.q + 1
        ELSE IF d.q % 2 = 0 THEN d.q ELSE d.q + 1

_criterion_ratio(result, criterion) ==
    LET item == result[criterion]
    IN  IF item.score = None THEN None
        ELSE IF item.status = "unknown" THEN None
        ELSE IF item.max_score <= 0 THEN None
        ELSE Some(Max(0, Min(RatioUnit,
                             (item.score[1] * RatioUnit) \div item.max_score)))

\* sorted(set(labels).intersection(results_map)); repositories are named by
\* numbers, whose order stands for the order of the names
RECURSIVE SortedSeq(_)
SortedSeq(S) ==
    IF S = {} THEN <<>>
    ELSE LET least == CHOOSE x \in S : \A y \in S : x <= y
         IN  <<least>> \o SortedSeq(S \ {least})

common_repos(labels, results_map) ==
    SortedSeq((DOMAIN labels) \cap (DOMAIN results_map))

\* the repos of common_repos for which the criterion has a ratio
sample_repos(labels, results_map, criterion) ==
    LET HasRatio(repo) == _criterion_ratio(results_map[repo], criterion) # None
    IN  SelectSeq(common_repos(labels, results_map), HasRatio)

x_values(labels, results_map, criterion) ==
    LET repos == sample_repos(labels, results_map, criterion)
    IN  [i \in 1..Len(repos) |-> _criterion_ratio(results_map[repos[i]], criterion)[1]]

\* labels[repo] / 50.0, in thousandths
y_values(labels, results_map, criterion) ==
    LET repos == sample_repos(labels, results_map, criterion)
    IN  [i \in 1..Len(repos) |-> labels[repos[i]] * 20]

\* by_criterion_samples[criterion] and by_criterion_correlation[criterion]
criterion_evidence(labels, results_map, min_samples, criterion) ==
    LET xs == x_values(labels, results_map, criterion)
        ys == y_values(labels, results_map, criterion)
    IN  [samples |-> Len(xs),
         corr |-> IF Len(xs) >= min_samples THEN spearman_correlation(xs, ys)
                  ELSE None]

\* correlation_values, in criterion order
correlation_values(evidence) ==
    LET HasCorr(criterion) == evidence[criterion].corr # None
        keys == SelectSeq(CriterionKeys, HasCorr)
    IN  [i \in 1..Len(keys) |-> evidence[keys[i]].corr[1]]

\* sorted(correlation_values)[index] for a 0-based index
SortedCorrAt(values, index) ==
    LET v == CHOOSE c \in {values[i] : i \in 1..Len(values)} :
                 /\ Cardinality({i \in 1..Len(values) : CorrCompare(values[i], c) < 0}) <= index
                 /\ Cardinality({i \in 1..Len(values) : CorrCompare(values[i], c) <= 0}) > index
    IN  v

\* median_corr = sorted_corr[len(sorted_corr) // 2], 0.45 without correlations
median_corr(values) ==
    IF values = <<>> THEN 4500
    ELSE CorrRound4(SortedCorrAt(values, Len(values) \div 2))

\* one factor for every criterion without a correlation, whatever its sample
\* count
factor_any_count(item, median, min_samples) ==
    IF item.corr = None THEN 184000
    ELSE Max(150000, Min(260000,
             FactorUnit + (CorrRound4(item.corr[1]) - median) * 9))

\* the factor without the clamp to [0.75, 1.30]
factor_unclamped(item, median, min_samples) ==
    IF item.corr = None
    THEN (IF item.samples >= min_samples THEN 184000 ELSE 170000)
    ELSE FactorUnit + (CorrRound4(item.corr[1]) - median) * 9

factor(item, median, min_samples) ==
    IF item.corr = None
    THEN (IF item.samples >= min_samples THEN 184000 ELSE 170000)
    ELSE Max(150000, Min(260000,
             FactorUnit + (CorrRound4(item.corr[1]) - median) * 9))

\* the old weights of a block divided by their common factor: the scale of a
\* block's raw weights cancels in raw * block_total / raw_total
block_unit(old_max, block_key) ==
    LET keys == block_criteria(block_key)
        g == GcdSeq([i \in 1..Len(keys) |-> old_max[keys[i]]])
    IN  IF g = 0 THEN 1 ELSE g

\* raw_suggested[criterion] = old_max * factor, in block units
raw_suggested(old_max, evidence, median, min_samples, criterion) ==
    (old_max[criterion] \div block_unit(old_max, CRITERION_BLOCK[criterion]))
    * factor(evidence[criterion], median, min_samples)

raw_total(old_max, evidence, median, min_samples, block_key) ==
    LET keys == block_criteria(block_key)
    IN  SumSeq([i \in 1..Len(keys) |->
                   raw_suggested(old_max, evidence, median, min_samples, keys[i])])

\* the normalization with the scaled weight cut to three decimals instead of
\* rounded
normalized_truncated(old_max, evidence, median, min_samples, criterion) ==
    LET block_key == CRITERION_BLOCK[criterion]
        total == raw_total(old_max, evidence, median, min_samples, block_key)
    IN  IF total <= 0 THEN old_max[criterion]
        ELSE MulDivQR(raw_suggested(old_max, evidence, median, min_samples, criterion),
                      BLOCK_MAX_SCORES[block_key], total).q

\* the normalization with an equal share of the budget as the fallback for a
\* block whose raw total is not positive
normalized_equal_share(old_max, evidence, median, min_samples, criterion) ==
    LET block_key == CRITERION_BLOCK[criterion]
        total == raw_total(old_max, evidence, median, min_samples, block_key)
    IN  IF total <= 0
        THEN BLOCK_MAX_SCORES[block_key] \div Len(block_criteria(block_key))
        ELSE MulDivRound(raw_suggested(old_max, evidence, median, min_samples, criterion),
                         BLOCK_MAX_SCORES[block_key], total)

\* normalized[criterion]: round(raw_suggested * scale, 3), or the old weight
\* when the block's raw total is not positive
normalized(old_max, evidence, median, min_samples, criterion) ==
    LET block_key == CRITERION_BLOCK[criterion]
        total == raw_total(old_max, evidence, median, min_samples, block_key)
    IN  IF total <= 0 THEN old_max[criterion]
        ELSE MulDivRound(raw_suggested(old_max, evidence, median, min_samples, criterion),
                         BLOCK_MAX_SCORES[block_key], total)

\* the rows as they were appended, without the sort
StatsUnsorted(rows, n) == SubSeq(rows, 1, n)

\* criterion_stats.sort(key=abs(delta_max), reverse=True): a stable sort, rows
\* of equal |delta_max| keep the criterion order
RECURSIVE SortStatsDesc(_, _)
SortStatsDesc(rows, n) ==
    IF n = 0 THEN <<>>
    ELSE LET before == SortStatsDesc(rows, n - 1)
             row == rows[n]
             key == Abs(row.delta_max)
             pos == Cardinality({k \in 1..Len(before) : Abs(before[k].delta_max) >= key})
         IN  SubSeq(before, 1, pos) \o <<row>> \o SubSeq(before, pos + 1, Len(before))

\* the report suggest_criterion_max_scores builds from the evidence it collected
tuning_report(evidence, sample_size, min_samples, old_max) ==
    LET median == median_corr(correlation_values(evidence))
        suggested == [c \in Criteria |->
                         normalized(old_max, evidence, median, min_samples, c)]
        rows == [i \in 1..Len(CriterionKeys) |->
                   LET c == CriterionKeys[i]
                       new_max == suggested[c]
                   IN  [criterion |-> c,
                        samples |-> evidence[c].samples,
                        spearman |-> IF evidence[c].corr = None THEN None
                                     ELSE Some(CorrRound4(evidence[c].corr[1])),
                        old_max |-> old_max[c],
                        suggested_max |-> new_max,
                        delta_max |-> new_max - old_max[c]]]
    IN  [status |-> "ok",
         sample_size |-> sample_size,
         median_spearman_used |-> median,
         criterion_stats |-> SortStatsDesc(rows, Len(rows)),
         suggested_criterion_max_scores |-> suggested]

----------------------------------------------------------------------------
\* Tuning: inputs and the call

NumRepos == 3

Repos == 1..NumRepos

\* what a results item holds for one criterion: result[criterion] and
\* criteria_meta[criterion]; scores and max_score in points
ResultItem(score, status, max_score) ==
    [score |-> score, status |-> status, max_score |-> max_score]

SeriesKinds == {"asc", "desc", "swap", "flat", "partial", "nomax"}

\* the item of repo number i in a series of the given kind
SeriesItem(kind, i) ==
    CASE kind = "asc"     -> ResultItem(Some(i), "known", 5)
      [] kind = "desc"    -> ResultItem(Some(NumRepos + 1 - i), "known", 5)
      [] kind = "swap"    -> ResultItem(Some(IF i = 1 THEN 2 ELSE IF i = 2 THEN 1 ELSE i),
                                        "known", 5)
      [] kind = "flat"    -> ResultItem(Some(2), "known", 5)
      [] kind = "partial" -> IF i <= 2 THEN ResultItem(Some(i), "known", 5)
                             ELSE ResultItem(None, "unknown", 5)
      [] kind = "nomax"   -> ResultItem(Some(i), "known", 0)

\* position of a criterion inside its block (1-based)
PositionInBlock(c) ==
    LET keys == block_criteria(CRITERION_BLOCK[c])
    IN  CHOOSE i \in 1..Len(keys) : keys[i] = c

\* every block shows the same pattern: its i-th criterion has a series of
\* kind pattern[i]
PatternResults(pattern, repos) ==
    [repo \in repos |-> [c \in Criteria |-> SeriesItem(pattern[PositionInBlock(c)], repo)]]

Patterns == [1..3 -> SeriesKinds]

\* expert scores in points
LabelVectors ==
    { [repo \in Repos |-> 10 * repo],
      [repo \in Repos |-> IF repo = 1 THEN 10 ELSE 20] }

Restrict(f, S) == [x \in S |-> f[x]]

TuningConfigs ==
    { CRITERION_MAX_SCORES,
      [c \in Criteria |-> IF CRITERION_BLOCK[c] = "block1_code_quality" THEN 0
                          ELSE CRITERION_MAX_SCORES[c]] }

TuneInit ==
    /\ \/ /\ \E pattern \in Patterns : tune_results = PatternResults(pattern, Repos)
          /\ tune_labels \in LabelVectors
          /\ tune_min_samples \in {2, NumRepos}
          /\ criterion_max_scores \in TuningConfigs
       \/ /\ \E repos \in SUBSET Repos :
                tune_results = PatternResults([i \in 1..3 |-> "asc"], repos)
          /\ \E repos \in SUBSET Repos :
                tune_labels = Restrict([repo \in Repos |-> 10 * repo], repos)
          /\ tune_min_samples = 2
          /\ criterion_max_scores = CRITERION_MAX_SCORES
    /\ tune_evidence = <<>>
    /\ tune_out = [status |-> "none"]

SuggestCriterionMaxScores ==
    /\ tune_out.status = "none"
    /\ tune_evidence' =
          IF common_repos(tune_labels, tune_results) = <<>> THEN <<>>
          ELSE [c \in Criteria |->
                   criterion_evidence(tune_labels, tune_results, tune_min_samples, c)]
    /\ tune_out' =
          IF common_repos(tune_labels, tune_results) = <<>>
          THEN [status |-> "ValueError"]
          ELSE tuning_report(tune_evidence',
                             Len(common_repos(tune_labels, tune_results)),
                             tune_min_samples, criterion_max_scores)
    /\ UNCHANGED <<tune_labels, tune_results, tune_min_samples>>
    /\ UNCHANGED not_tune_vars

TuneNext == SuggestCriterionMaxScores

----------------------------------------------------------------------------
\* calibration.py: match_samples, build_calibration_report
\*
\* A dict is the sequence of its <<key, value>> items in insertion order; a
\* repository name is a number, ordered as sorted() orders the names.

DictKeys(d) == {d[i][1] : i \in 1..Len(d)}

\* the value at the key's position in insertion order, not the key's own
DictGetByPosition(d, key) == d[IF key <= Len(d) THEN key ELSE Len(d)][2]

DictGet(d, key) == d[CHOOSE i \in 1..Len(d) : d[i][1] = key][2]

\* [(repo, expert_labels[repo], model_scores[repo]) for repo in common]
RECURSIVE SamplesOf(_, _, _)
SamplesOf(common, expert_labels, model_scores) ==
    IF common = <<>> THEN <<>>
    ELSE <<<<Head(common), DictGet(expert_labels, Head(common)),
             DictGet(model_scores, Head(common))>>>>
         \o SamplesOf(Tail(common), expert_labels, model_scores)

\* the samples in the insertion order of expert_labels, without the sort
match_samples_unsorted(expert_labels, model_scores) ==
    SamplesOf(SelectSeq([i \in 1..Len(expert_labels) |-> expert_labels[i][1]],
                        LAMBDA repo : repo \in DictKeys(model_scores)),
              expert_labels, model_scores)

match_samples(expert_labels, model_scores) ==
    SamplesOf(SortedSeq(DictKeys(expert_labels) \cap DictKeys(model_scores)),
              expert_labels, model_scores)

\* [sample[k] for sample in samples]
RECURSIVE Column(_, _)
Column(samples, k) ==
    IF samples = <<>> THEN <<>>
    ELSE <<Head(samples)[k]>> \o Column(Tail(samples), k)

\* the "pairs" of the report, one per sample
RECURSIVE PairsOf(_)
PairsOf(samples) ==
    IF samples = <<>> THEN <<>>
    ELSE <<[repo |-> Head(samples)[1],
            expert_score |-> Head(samples)[2],
            model_score |-> Head(samples)[3],
            delta |-> Head(samples)[3] - Head(samples)[2]]>>
         \o PairsOf(Tail(samples))

\* spearman_correlation(x, y) as the double the code holds, for series of equal
\* length >= 2 with a rank spread on both sides: its sign and its magnitude.
\* The ranks are halves and their mean (n + 1) / 2 is exact, so the deviations
\* (doubled here), their products and the three sums are exact; rounding
\* enters at the two square roots, their product and the final quotient.
\* numerator / denominator of pearson_correlation for the ranks rx and ry
spearman_of_ranks(rx, ry, n) ==
    LET numerator == SumSeq([i \in 1..n |-> (rx[i] - (n + 1)) * (ry[i] - (n + 1))])
        sum_x == SumSeq([i \in 1..n |-> (rx[i] - (n + 1)) * (rx[i] - (n + 1))])
        sum_y == SumSeq([i \in 1..n |-> (ry[i] - (n + 1)) * (ry[i] - (n + 1))])
        denominator_of(root_x) ==
            FloatMul(root_x, IF sum_y = sum_x THEN root_x ELSE FloatSqrt(sum_y))
        quotient_of(size) ==
            [sign |-> IF size > 0 THEN 1 ELSE IF size < 0 THEN -1 ELSE 0,
             abs |-> FloatDiv(FloatOfInt(Abs(size)), denominator_of(FloatSqrt(sum_x)))]
    IN  quotient_of(numerator)

spearman_float(x, y) == spearman_of_ranks(_rank(x), _rank(y), Len(x))

\* the doubles 0.4 and 0.7
PoorBelow == FloatOf(4, 10)
ModerateBelow == FloatOf(7, 10)

\* rho < threshold for such a double and a threshold > 0
FloatBelow(rho, threshold) ==
    rho.sign <= 0 \/ FloatLess(rho.abs, threshold)

\* round(corr, 4) as CorrRound4 computes it, for coefficients whose p and q
\* are too large to multiply by 2 * 10^4 directly
CorrRound4Wide(corr) ==
    LET k == 2 * CorrUnit
        first == MulDivQR(corr.p, k, corr.q)
        scaled == first.q * k + MulDivQR(first.r, k, corr.q).q
        m == IsqrtIn(scaled, 0, k)
    IN  corr.sign * ((m + 1) \div 2)

\* round(value, 4) of an Optional coefficient, in units of 1e-4; the quotient
\* of rounding errors is left as it is
RoundCorr4(value) ==
    IF value = None THEN None
    ELSE IF value[1] = RoundingNoise THEN value
    ELSE Some(CorrRound4Wide(value[1]))

\* The texts of the warnings; the numbers formatted into the last two are
\* left out.
WarnSmallSample == "small sample size (<10)"
WarnNoRankCorrelation == "unable to compute rank correlation (insufficient variance)"
WarnLowRankCorrelation == "low rank correlation"
WarnHighError == "high absolute error"

\* Scores are in hundredths: mae > 8.0 is num / den > 800, round(mae, 4) is in
\* units of 1e-4, and round(score, 3) leaves a score as it is.
calibration_report_of(samples, pearson, spearman, mae, rho, now) ==
    LET below_04 == spearman # None /\ FloatBelow(rho, PoorBelow)
        below_07 == spearman # None /\ FloatBelow(rho, ModerateBelow)
        warnings ==
            (IF Len(samples) < 10 THEN <<WarnSmallSample>> ELSE <<>>)
            \o (IF spearman = None THEN <<WarnNoRankCorrelation>>
                ELSE IF below_04 THEN <<WarnLowRankCorrelation>> ELSE <<>>)
            \o (IF mae # None /\ mae[1].num > 8 * ScoreUnit * mae[1].den
                THEN <<WarnHighError>> ELSE <<>>)
        quality_band ==
            IF spearman = None \/ below_04 THEN "poor"
            ELSE IF below_07 THEN "moderate"
            ELSE "good"
    IN  [generated_at |-> now,
         sample_size |-> Len(samples),
         metrics |-> [spearman |-> RoundCorr4(spearman),
                      pearson |-> RoundCorr4(pearson),
                      mae |-> IF mae = None THEN None
                              ELSE Some(RoundDiv(mae[1].num * 100, mae[1].den))],
         quality_band |-> quality_band,
         warnings |-> warnings,
         pairs |-> PairsOf(samples)]

\* the report for the matched samples and their two columns
calibration_report_for(samples, expert_values, model_values, now) ==
    calibration_report_of(samples,
                          pearson_correlation(expert_values, model_values),
                          spearman_correlation(expert_values, model_values),
                          mean_absolute_error(expert_values, model_values),
                          spearman_float(expert_values, model_values),
                          now)

samples_report(samples, now) ==
    calibration_report_for(samples, Column(samples, 2), Column(samples, 3), now)

build_calibration_report(expert_labels, model_scores, now) ==
    samples_report(match_samples(expert_labels, model_scores), now)

----------------------------------------------------------------------------
\* Calibration report: inputs and the call

MaxSamples == 4

\* model scores, in hundredths of a point
ScoreValues == {10, 20, 30, 40}

\* expert labels: 0.1, 0.2, 0.3, ... points by repository; 10 points for every
\* repository; 0.1 points for every repository
LabelFamilies == {"ascending", "flat", "flat_tenth"}

LabelOf(family, repo) ==
    CASE family = "ascending" -> 10 * repo
      [] family = "flat" -> 1000
      [] family = "flat_tenth" -> 10

\* the items of a dict over the keys lo..hi, inserted in ascending or in
\* descending key order
ItemsOf(value_of(_), lo, hi, descending) ==
    [i \in 1..(hi - lo + 1) |->
        LET key == IF descending THEN hi - i + 1 ELSE lo + i - 1
        IN  <<key, value_of(key)>>]

\* when the report is generated
ReportTimes == {0, 1}

ReportInit ==
    /\ \E n \in 0..MaxSamples, shift \in {0, 1}, family \in LabelFamilies,
          descending \in BOOLEAN :
          \E scores \in [1..n -> ScoreValues] :
             LET label_of(repo) == LabelOf(family, repo)
                 score_of(repo) == scores[repo]
             IN  /\ report_labels = ItemsOf(label_of, 1 + shift, n + shift, descending)
                 /\ report_scores = ItemsOf(score_of, 1, n, descending)
    /\ report = None

BuildCalibrationReport ==
    /\ report = None
    /\ LET first == build_calibration_report(report_labels, report_scores, 0)
       IN  \E now \in ReportTimes :
              report' = Some([first EXCEPT !.generated_at = now])
    /\ UNCHANGED <<report_labels, report_scores>>
    /\ UNCHANGED not_report_vars

ReportNext == BuildCalibrationReport

----------------------------------------------------------------------------
\* recalibration.py: run_profile_recalibration and the helpers it calls;
\* tuning.py: apply_suggested_scores_to_config

STACK_PROFILE_AUTO == "auto"
STACK_PROFILE_ALL == "all"

STACK_PROFILE_CHOICES ==
    {"auto", "all", "python_backend", "python_fullstack_react", "django_templates",
     "python_django_templates", "node_frontend", "mixed_unknown"}

\* the stack names in sorted() order
SortedStackNames ==
    << "mixed_unknown", "node_frontend", "python_backend",
       "python_django_templates", "python_fullstack_react" >>

\* value is None (no stack recorded) or a name
_canonical_stack_profile(value) ==
    IF value = None THEN "mixed_unknown"
    ELSE LET alias_mapped == IF value[1] = "django_templates"
                             THEN "python_django_templates" ELSE value[1]
         IN  IF alias_mapped \in NON_AUTO_STACK_PROFILES THEN alias_mapped
             ELSE "mixed_unknown"

_stack_slug(profile) ==
    IF profile = None THEN "all"
    ELSE LET canonical == _canonical_stack_profile(profile)
         IN  IF canonical = "python_django_templates" THEN "django_templates"
             ELSE canonical

\* build_results_stack_map: the items carry no usable path, so a result without
\* a recognised stack_profile is mixed_unknown
repo_stack_map(result_stack) ==
    [repo \in DOMAIN result_stack |-> _canonical_stack_profile(result_stack[repo])]

\* Counter(...) over a list of repos: <<stack, count>> pairs in the order of
\* first occurrence
RECURSIVE Counter(_, _)
Counter(stack_map, repos) ==
    IF repos = <<>> THEN <<>>
    ELSE LET before == Counter(stack_map, SubSeq(repos, 1, Len(repos) - 1))
             stack == stack_map[repos[Len(repos)]]
         IN  IF \E i \in 1..Len(before) : before[i][1] = stack
             THEN [i \in 1..Len(before) |->
                      IF before[i][1] = stack THEN <<stack, before[i][2] + 1>>
                      ELSE before[i]]
             ELSE Append(before, <<stack, 1>>)

\* sorted(stack_counts.items(), key=lambda item: item[0])
SortedCounts(stack_counts) ==
    LET Counted(name) == \E i \in 1..Len(stack_counts) : stack_counts[i][1] = name
        names == SelectSeq(SortedStackNames, Counted)
    IN  [k \in 1..Len(names) |->
            stack_counts[CHOOSE i \in 1..Len(stack_counts) : stack_counts[i][1] = names[k]]]

\* the first pair in dict order, whatever its count
FirstKey(stack_counts) == stack_counts[1][1]

\* max(stack_counts.items(), key=lambda item: item[1])[0]: the first pair, in
\* dict order, of maximal count
FirstMax(stack_counts) ==
    LET best == CHOOSE i \in 1..Len(stack_counts) :
                    /\ \A j \in 1..Len(stack_counts) : stack_counts[j][2] <= stack_counts[i][2]
                    /\ \A j \in 1..(i - 1) : stack_counts[j][2] < stack_counts[i][2]
    IN  stack_counts[best][1]

Returned(value) == [raised |-> FALSE, value |-> value]
Raised(kind, detail) == [raised |-> TRUE, error |-> [type |-> "ValueError", kind |-> kind, detail |-> detail]]

\* strict mode ignored: a mixed overlap resolves to the dominant profile
_resolve_stack_selection_lenient(requested, stack_counts, strict_stack_profile) ==
    IF requested = STACK_PROFILE_ALL THEN Returned(None)
    ELSE IF requested = STACK_PROFILE_AUTO
    THEN IF stack_counts = <<>> THEN Returned(None)
         ELSE IF Len(stack_counts) = 1 THEN Returned(Some(stack_counts[1][1]))
         ELSE Returned(Some(FirstMax(stack_counts)))
    ELSE LET canonical == _canonical_stack_profile(Some(requested))
         IN  IF canonical = "mixed_unknown" /\ requested # "mixed_unknown"
             THEN Raised("unsupported stack profile", <<requested>>)
             ELSE Returned(Some(canonical))

\* an explicit name ignored: no filter, as for "all"
_resolve_stack_selection_unfiltered(requested, stack_counts, strict_stack_profile) ==
    IF requested \notin {STACK_PROFILE_ALL, STACK_PROFILE_AUTO} THEN Returned(None)
    ELSE IF requested = STACK_PROFILE_ALL THEN Returned(None)
    ELSE IF stack_counts = <<>> THEN Returned(None)
    ELSE IF Len(stack_counts) = 1 THEN Returned(Some(stack_counts[1][1]))
    ELSE IF strict_stack_profile
    THEN Raised("mixed stack profiles detected", SortedCounts(stack_counts))
    ELSE Returned(Some(FirstMax(stack_counts)))

_resolve_stack_selection(requested, stack_counts, strict_stack_profile) ==
    IF requested = STACK_PROFILE_ALL THEN Returned(None)
    ELSE IF requested = STACK_PROFILE_AUTO
    THEN IF stack_counts = <<>> THEN Returned(None)
         ELSE IF Len(stack_counts) = 1 THEN Returned(Some(stack_counts[1][1]))
         ELSE IF strict_stack_profile
         THEN Raised("mixed stack profiles detected", SortedCounts(stack_counts))
         ELSE Returned(Some(FirstMax(stack_counts)))
    ELSE LET canonical == _canonical_stack_profile(Some(requested))
         IN  IF canonical = "mixed_unknown" /\ requested # "mixed_unknown"
             THEN Raised("unsupported stack profile", <<requested>>)
             ELSE Returned(Some(canonical))

\* _build_stack_profile_breakdown: one entry per stack of the filtered sample,
\* in sorted order of the stack names, here with its sample_size
_build_stack_profile_breakdown(stack_map, repos) ==
    SortedCounts(Counter(stack_map, repos))

\* Lines 611-665: overlap, validation of the request, resolution, filtering.
\* args: [labels: set of labelled repos, result_stack: repo -> recorded stack,
\*        stack_profile, strict_stack_profile, apply_to_config: BOOLEAN]
resolve_scope(args) ==
    LET overlap_repos == SortedSeq(args.labels \cap DOMAIN args.result_stack)
        stack_map == repo_stack_map(args.result_stack)
        overlap_stack_counts == Counter(stack_map, overlap_repos)
        requested == args.stack_profile
        resolution == _resolve_stack_selection(requested, overlap_stack_counts,
                                               args.strict_stack_profile)
        InScope(repo) == stack_map[repo] = resolution.value[1]
        filtered_repos == IF resolution.value = None THEN overlap_repos
                          ELSE SelectSeq(overlap_repos, InScope)
        OutOfScope(pair) == pair[1] # resolution.value[1]
        out_of_scope == SelectSeq(overlap_stack_counts, OutOfScope)
    IN  IF overlap_repos = <<>>
        THEN Raised("no overlapping repositories between labels and results", <<>>)
        ELSE IF requested \notin STACK_PROFILE_CHOICES
        THEN Raised("unsupported stack profile", <<requested>>)
        ELSE IF resolution.raised THEN resolution
        ELSE IF /\ resolution.value # None
                /\ args.strict_stack_profile
                /\ requested = STACK_PROFILE_AUTO
                /\ out_of_scope # <<>>
        THEN Raised("strict stack mode rejected mixed samples", SortedCounts(out_of_scope))
        ELSE IF resolution.value # None /\ filtered_repos = <<>>
        THEN Raised("no overlapping repositories after stack filter", <<resolution.value[1]>>)
        ELSE Returned([overlap_stack_counts |-> overlap_stack_counts,
                       requested_stack_profile |-> requested,
                       resolved_stack_profile |-> resolution.value,
                       filtered_repos |-> filtered_repos,
                       filtered_stack_counts |-> Counter(stack_map, filtered_repos),
                       sample_size |-> Len(filtered_repos),
                       stack_profile_breakdown |->
                           _build_stack_profile_breakdown(stack_map, filtered_repos)])

\* File contents.  A report or config is identified by what it was computed
\* from: the resolved scope, the filtered sample and, where the file carries a
\* generated_at stamp, the second it was written in.
Original == [kind |-> "original"]
Truncated == [kind |-> "truncated"]

Generated(kind, scope, stamp) ==
    [kind |-> kind,
     resolved_stack_profile |-> scope.resolved_stack_profile,
     sample |-> scope.filtered_repos,
     generated_at |-> stamp]

FilePaths ==
    {"calibration_json", "calibration_txt", "tuning_patch_json",
     "profile_config_json", "profile_root_config_json", "profile_stack_config_json",
     "apply_to_config", "summary_json", "summary_txt"}

Compute(what) == [op |-> "compute", what |-> what]
WriteFile(path, kind, stamped) == [op |-> "write", path |-> path, kind |-> kind, stamped |-> stamped]
BackupFile(path) == [op |-> "backup", path |-> path]

\* Lines 667-763 as the sequence of steps they execute
recalibration_steps(args) ==
    << Compute("build_calibration_report"),
       WriteFile("calibration_json", "calibration_report", FALSE),
       WriteFile("calibration_txt", "calibration_report", TRUE),
       Compute("suggest_criterion_max_scores"),
       WriteFile("tuning_patch_json", "tuning_report", FALSE),
       Compute("build_profile_config"),
       WriteFile("profile_config_json", "profile_config", TRUE),
       WriteFile("profile_root_config_json", "profile_config", TRUE),
       WriteFile("profile_stack_config_json", "profile_config", TRUE) >>
    \o (IF args.apply_to_config
        THEN << BackupFile("apply_to_config"),
                WriteFile("apply_to_config", "profile_config", TRUE) >>
        ELSE <<>>)
    \o << WriteFile("summary_json", "summary", TRUE),
          WriteFile("summary_txt", "summary", TRUE) >>

IsIO(step) == step.op \in {"write", "backup"}

\* backup_file_if_exists: nothing when the target does not exist, else a copy
\* named <name>.backup.<timestamp>; the timestamp has the resolution of a
\* second and shutil.copy2 replaces a file of the same name
backup_file_if_exists(files, backup_dir, path, now) ==
    IF files[path] = None THEN [backups |-> backup_dir, backup_path |-> None]
    ELSE [backups |-> [backup_dir EXCEPT ![now] = files[path]],
          backup_path |-> Some(now)]

\* The effect of one step on st = [fs, backups, backup_path, log].
ExecStep(step, scope, now, st) ==
    LET logged == [st EXCEPT !.log = Append(st.log, step)]
    IN  CASE step.op = "compute" -> logged
          [] step.op = "write" ->
                [logged EXCEPT !.fs[step.path] =
                    Some(Generated(step.kind, scope, IF step.stamped THEN now ELSE -1))]
          [] step.op = "backup" ->
                LET b == backup_file_if_exists(st.fs, st.backups, step.path, now)
                IN  [logged EXCEPT !.backups = b.backups, !.backup_path = b.backup_path]

\* Steps i.. of the plan; step number fail (0: none) raises OSError, leaving
\* its file as it was or, for a write that got as far as opening the file,
\* cut short.
RECURSIVE ExecFrom(_, _, _, _, _, _, _)
ExecFrom(plan, i, scope, now, fail, partial, st) ==
    IF i > Len(plan) THEN [st EXCEPT !.status = "returned"]
    ELSE IF i = fail
    THEN [st EXCEPT !.status = "raised",
                    !.error = [type |-> "OSError", kind |-> "step failed", detail |-> <<plan[i]>>],
                    !.fs = IF plan[i].op = "write" /\ partial
                           THEN [st.fs EXCEPT ![plan[i].path] = Some(Truncated)]
                           ELSE st.fs]
    ELSE ExecFrom(plan, i + 1, scope, now, fail, partial, ExecStep(plan[i], scope, now, st))

NoError == [type |-> "none", kind |-> "none", detail |-> <<>>]

\* run_profile_recalibration: the files after the call and what the caller gets
run_profile_recalibration(args, files, backup_dir, now, fail, partial) ==
    LET scoped == resolve_scope(args)
        start == [fs |-> files, backups |-> backup_dir, backup_path |-> None,
                  log |-> <<>>, status |-> "running", error |-> NoError]
    IN  IF scoped.raised
        THEN [fs |-> files, backups |-> backup_dir,
              result |-> [op |-> "run_profile_recalibration", status |-> "raised",
                          error |-> scoped.error, log |-> <<>>,
                          resolved_stack_profile |-> None,
                          filtered_repos |-> <<>>,
                          sample_size |-> 0,
                          overlap_stack_counts |-> <<>>,
                          filtered_stack_counts |-> <<>>,
                          stack_profile_breakdown |-> <<>>,
                          backup_config_path |-> None]]
        ELSE LET end == ExecFrom(recalibration_steps(args), 1, scoped.value, now,
                                 fail, partial, start)
             IN  [fs |-> end.fs, backups |-> end.backups,
                  result |-> [op |-> "run_profile_recalibration", status |-> end.status,
                              error |-> end.error, log |-> end.log,
                              resolved_stack_profile |-> scoped.value.resolved_stack_profile,
                              filtered_repos |-> scoped.value.filtered_repos,
                              sample_size |-> scoped.value.sample_size,
                              overlap_stack_counts |-> scoped.value.overlap_stack_counts,
                              filtered_stack_counts |-> scoped.value.filtered_stack_counts,
                              stack_profile_breakdown |->
                                  scoped.value.stack_profile_breakdown,
                              backup_config_path |-> end.backup_path]]

\* apply_suggested_scores_to_config: the existing config with the suggested
\* weights merged in ({} when the file is missing or unreadable), written back
apply_suggested_scores_to_config(files, config_path) ==
    LET existing == IF files[config_path] = None \/ files[config_path] = Some(Truncated)
                    THEN None ELSE files[config_path]
    IN  [files EXCEPT ![config_path] = Some([kind |-> "patched_config", existing |-> existing])]

----------------------------------------------------------------------------
\* Recalibration: scenarios and operations

NumRecalRepos == 2
MaxRuns == 2
MaxClock == 1
NumMixedRepos == 3

RecalRepos == 1..NumRecalRepos

\* a larger overlap, for scopes in which one profile outnumbers the other
MixedRepos == 1..NumMixedRepos

RecordedStacks == {None, Some("python_backend"), Some("python_fullstack_react")}

RequestedProfiles == {"auto", "all", "python_backend", "rust_backend"}

\* every scope with the active config in place, and one scope for the other
\* combinations of apply_to_config and the active config
RecalArgs ==
    [labels : {RecalRepos, {}},
     result_stack : [RecalRepos -> RecordedStacks],
     stack_profile : RequestedProfiles,
     strict_stack_profile : BOOLEAN,
     apply_to_config : {TRUE}]
    \cup [labels : {RecalRepos},
          result_stack : {[repo \in RecalRepos |-> Some("python_backend")]},
          stack_profile : {"auto"},
          strict_stack_profile : {TRUE},
          apply_to_config : {FALSE}]
    \cup [labels : {MixedRepos},
          result_stack : [MixedRepos -> {Some("python_backend"),
                                         Some("python_fullstack_react")}],
          stack_profile : {"auto", "python_backend"},
          strict_stack_profile : BOOLEAN,
          apply_to_config : {TRUE}]

RecalInit ==
    /\ recal_args \in RecalArgs
    /\ \E active \in {None, Some(Original)} :
          /\ recal_args.apply_to_config = (active # None)
             \/ (recal_args.apply_to_config /\ recal_args.stack_profile = "all")
          /\ fs = [p \in FilePaths |-> IF p = "apply_to_config" THEN active ELSE None]
    /\ backups = [t \in 0..MaxClock |-> None]
    /\ clock = 0
    /\ recal_runs = 0
    /\ recal_failed = FALSE
    /\ recal_last = [op |-> "none"]

\* the steps of a run that may be made to fail
FailureChoices(args) ==
    {<<0, FALSE>>}
    \cup (IF resolve_scope(args).raised \/ recal_failed THEN {}
          ELSE LET plan == recalibration_steps(args)
               IN  {<<i, FALSE>> : i \in {k \in 1..Len(plan) : IsIO(plan[k])}}
                   \cup {<<i, TRUE>> : i \in {k \in 1..Len(plan) : plan[k].op = "write"}})

RunProfileRecalibration ==
    /\ recal_runs < MaxRuns
    /\ \E choice \in FailureChoices(recal_args) :
          LET out == run_profile_recalibration(recal_args, fs, backups, clock,
                                               choice[1], choice[2])
          IN  /\ fs' = out.fs
              /\ backups' = out.backups
              /\ recal_last' = out.result
              /\ recal_failed' = (recal_failed \/ choice[1] # 0)
    /\ recal_runs' = recal_runs + 1
    /\ UNCHANGED <<recal_args, clock>>
    /\ UNCHANGED not_recal_vars

\* tune_scoring_config.py --apply-config on the active config
ApplySuggestedScoresToConfig ==
    /\ recal_runs < MaxRuns
    /\ recal_args.apply_to_config
    /\ fs' = apply_suggested_scores_to_config(fs, "apply_to_config")
    /\ recal_last' = [op |-> "apply_suggested_scores_to_config", status |-> "returned"]
    /\ recal_runs' = recal_runs + 1
    /\ UNCHANGED <<recal_args, backups, clock, recal_failed>>
    /\ UNCHANGED not_recal_vars

\* a second passes
Tick ==
    /\ clock < MaxClock
    /\ clock' = clock + 1
    /\ UNCHANGED <<recal_args, fs, backups, recal_runs, recal_failed, recal_last>>
    /\ UNCHANGED not_recal_vars

RecalNext == RunProfileRecalibration \/ ApplySuggestedScoresToConfig \/ Tick

----------------------------------------------------------------------------
\* scoring.py: detect_stack_profile
\*
\* A repository directory is described by what the function looks at:
\*   py_files, node_code, notebooks   some *.py / *.js or *.ts / *.ipynb file
\*                                    exists at any depth
\*   root_files                       names of files in the root directory
\*   package_deps                     dependency names of package.json
\*   django_in_requirements           "django" occurs in requirements*.txt or
\*                                    pyproject.toml
\*   templates_html                   templates/ is a directory holding *.html

PythonManifests ==
    {"pyproject.toml", "requirements.txt", "requirements-dev.txt", "setup.py",
     "manage.py", "Pipfile", "poetry.lock"}

NodeArtifacts ==
    {"package.json", "tsconfig.json", "vite.config.ts", "vite.config.js",
     "next.config.js", "next.config.mjs", "webpack.config.js", "webpack.config.ts",
     "yarn.lock", "pnpm-lock.yaml"}

ReactLikeDeps == {"react", "next", "vue", "@angular/core", "svelte", "nuxt"}

FrontendConfigs ==
    {"next.config.js", "next.config.mjs", "vite.config.ts", "vite.config.js",
     "nuxt.config.ts", "nuxt.config.js"}

detect_stack_profile(path) ==
    LET has_python_files == path.py_files
        has_python_manifests == path.root_files \cap PythonManifests # {}
        has_python == has_python_files \/ has_python_manifests
        has_node_artifacts == path.root_files \cap NodeArtifacts # {}
        has_node_code == path.node_code
        has_node == has_node_artifacts \/ has_node_code
        dep_names == IF "package.json" \in path.root_files THEN path.package_deps ELSE {}
        has_react_like_frontend ==
            \/ dep_names \cap ReactLikeDeps # {}
            \/ path.root_files \cap FrontendConfigs # {}
        has_django_signal ==
            \/ "manage.py" \in path.root_files
            \/ path.django_in_requirements
        has_templates == path.templates_html
    IN  IF has_python /\ has_node /\ has_react_like_frontend THEN "python_fullstack_react"
        ELSE IF has_python /\ has_django_signal /\ has_templates
        THEN "python_django_templates"
        ELSE IF has_python THEN "python_backend"
        ELSE IF has_node THEN "node_frontend"
        ELSE "mixed_unknown"

\* Detection: repositories and the call

RootFileNames == {"requirements.txt", "manage.py", "package.json", "next.config.js"}

DependencyNames == {"react", "express"}

\* manage.py is a *.py file and next.config.js a *.js file; dependencies need a
\* package.json and a mention of django a requirements.txt
RepoTrees ==
    {t \in [py_files : BOOLEAN,
            notebooks : BOOLEAN,
            node_code : BOOLEAN,
            root_files : SUBSET RootFileNames,
            package_deps : SUBSET DependencyNames,
            django_in_requirements : BOOLEAN,
            templates_html : BOOLEAN] :
        /\ "manage.py" \in t.root_files => t.py_files
        /\ "next.config.js" \in t.root_files => t.node_code
        /\ t.package_deps # {} => "package.json" \in t.root_files
        /\ t.django_in_requirements => "requirements.txt" \in t.root_files}

EmptyTree ==
    [py_files |-> FALSE, notebooks |-> FALSE, node_code |-> FALSE, root_files |-> {},
     package_deps |-> {}, django_in_requirements |-> FALSE, templates_html |-> FALSE]

DetectInit ==
    /\ repo_tree \in RepoTrees
    /\ detected = None

DetectStackProfile ==
    /\ detected = None
    /\ detected' = Some(detect_stack_profile(repo_tree))
    /\ UNCHANGED repo_tree
    /\ UNCHANGED not_detect_vars

DetectNext == DetectStackProfile

----------------------------------------------------------------------------
\* prepare_golden_set.py: select_evenly_spaced, select_stratified
\*
\* A row is [repo, total_score, red]: its name, its score and whether its
\* data_quality_status is "red".

\* the items kept at the 0-based indices of a set, in index order
ItemsAt(items, indices) ==
    LET Kept(i) == (i - 1) \in indices
        positions == SelectSeq([i \in 1..Len(items) |-> i], Kept)
    IN  [k \in 1..Len(positions) |-> items[positions[k]]]

select_evenly_spaced(items, size) ==
    IF size <= 0 \/ items = <<>> THEN <<>>
    ELSE IF size >= Len(items) THEN items
    ELSE LET selected_indices ==
                 {RoundDiv(i * (Len(items) - 1), Max(1, size - 1)) : i \in 0..(size - 1)}
             spaced == ItemsAt(items, selected_indices)
             others == ItemsAt(items, (0..(Len(items) - 1)) \ selected_indices)
             filled == IF Len(spaced) < size
                       THEN spaced \o SubSeq(others, 1, size - Len(spaced))
                       ELSE spaced
         IN  SubSeq(filled, 1, size)

\* sorted(rows, key=total_score): stable, rows of equal score keep their order
RECURSIVE SortedByScore(_)
SortedByScore(rows) ==
    IF rows = <<>> THEN <<>>
    ELSE LET before == SortedByScore(SubSeq(rows, 1, Len(rows) - 1))
             row == rows[Len(rows)]
             pos == Cardinality({k \in 1..Len(before) :
                                    before[k].total_score <= row.total_score})
         IN  SubSeq(before, 1, pos) \o <<row>> \o SubSeq(before, pos + 1, Len(before))

\* selected_by_repo[item["repo"]] = item for each item in turn: a repo already
\* present keeps its place and takes the new item
RECURSIVE DictUpdate(_, _)
DictUpdate(d, items) ==
    IF items = <<>> THEN d
    ELSE LET item == Head(items)
             updated ==
                 IF \E k \in 1..Len(d) : d[k].repo = item.repo
                 THEN [k \in 1..Len(d) |-> IF d[k].repo = item.repo THEN item ELSE d[k]]
                 ELSE Append(d, item)
         IN  DictUpdate(updated, Tail(items))

\* [item for item in ordered if data_quality_status is "red"]
red_cases_of(ordered) ==
    LET IsRed(item) == item.red
    IN  SelectSeq(ordered, IsRed)

\* lines 85-102, from the evenly spaced base and the red rows
stratified_of(base, red_cases, size) ==
    LET red_target == Min(Max(4, size \div 5), Len(red_cases))
        selected_by_repo ==
            DictUpdate(DictUpdate(<<>>, base), SubSeq(red_cases, 1, red_target))
    IN  IF Len(selected_by_repo) > size
        THEN SortedByScore(select_evenly_spaced(SortedByScore(selected_by_repo), size))
        ELSE SortedByScore(selected_by_repo)

select_stratified(results_list, size) ==
    LET ordered == SortedByScore(results_list)
    IN  stratified_of(select_evenly_spaced(ordered, size), red_cases_of(ordered), size)

----------------------------------------------------------------------------
\* Stratified selection: inputs and the call

MaxRows == 5
MaxSize == 5

\* n rows with the scores 1..n, given in ascending or in descending order of
\* score, each red or not
SelectInputs ==
    UNION { { [i \in 1..n |->
                 LET repo == IF descending THEN n + 1 - i ELSE i
                 IN  [repo |-> repo, total_score |-> repo, red |-> repo \in reds]] :
              reds \in SUBSET (1..n), descending \in BOOLEAN } :
            n \in 0..MaxRows }

SelectInit ==
    /\ select_results \in SelectInputs
    /\ select_size \in 0..MaxSize
    /\ selected = None

SelectStratified ==
    /\ selected = None
    /\ selected' = Some(select_stratified(select_results, select_size))
    /\ UNCHANGED <<select_results, select_size>>
    /\ UNCHANGED not_select_vars

SelectNext == SelectStratified

----------------------------------------------------------------------------
\* Specifications: one per component; the other components stay idle.

EvalIdle ==
    /\ stack_profile = "python_backend"
    /\ criterion_max_scores = CRITERION_MAX_SCORES
    /\ probe = <<>>
    /\ eval_pc = "idle"
    /\ criteria = <<>>
    /\ probe_calls = {}
    /\ results = None

CalIdle ==
    /\ cal_x = <<>>
    /\ cal_y = <<>>
    /\ cal_out = [op |-> "idle"]

TuneIdle ==
    /\ tune_labels = <<>>
    /\ tune_results = <<>>
    /\ tune_min_samples = 8
    /\ tune_evidence = <<>>
    /\ tune_out = [status |-> "idle"]

RecalIdle ==
    /\ recal_args = <<>>
    /\ fs = <<>>
    /\ backups = <<>>
    /\ clock = 0
    /\ recal_runs = 0
    /\ recal_failed = FALSE
    /\ recal_last = [op |-> "idle"]

\* evaluation idle, the weights left to the component that reads them
EvalIdleButWeights ==
    /\ stack_profile = "python_backend"
    /\ probe = <<>>
    /\ eval_pc = "idle"
    /\ criteria = <<>>
    /\ probe_calls = {}
    /\ results = None

DetectIdle ==
    /\ repo_tree = EmptyTree
    /\ detected = None

ReportIdle ==
    /\ report_labels = <<>>
    /\ report_scores = <<>>
    /\ report = None

SelectIdle ==
    /\ select_results = <<>>
    /\ select_size = 0
    /\ selected = None

InitEval ==
    /\ EvalInit /\ CalIdle /\ TuneIdle /\ RecalIdle /\ ReportIdle /\ DetectIdle
    /\ SelectIdle

SpecEval == InitEval /\ [][EvalNext]_vars

InitCal ==
    /\ CalInit /\ EvalIdle /\ TuneIdle /\ RecalIdle /\ ReportIdle /\ DetectIdle
    /\ SelectIdle

SpecCal == InitCal /\ [][CalNext]_vars

InitTune ==
    /\ TuneInit /\ EvalIdleButWeights /\ CalIdle /\ RecalIdle /\ ReportIdle
    /\ DetectIdle /\ SelectIdle

SpecTune == InitTune /\ [][TuneNext]_vars

InitRecal ==
    /\ RecalInit /\ EvalIdle /\ CalIdle /\ TuneIdle /\ ReportIdle /\ DetectIdle
    /\ SelectIdle

SpecRecal == InitRecal /\ [][RecalNext]_vars

InitReport ==
    /\ ReportInit /\ EvalIdle /\ CalIdle /\ TuneIdle /\ RecalIdle /\ DetectIdle
    /\ SelectIdle

SpecReport == InitReport /\ [][ReportNext]_vars

InitDetect ==
    /\ DetectInit /\ EvalIdle /\ CalIdle /\ TuneIdle /\ RecalIdle /\ ReportIdle
    /\ SelectIdle

SpecDetect == InitDetect /\ [][DetectNext]_vars

InitSelect ==
    /\ SelectInit /\ EvalIdle /\ CalIdle /\ TuneIdle /\ RecalIdle /\ ReportIdle
    /\ DetectIdle

SpecSelect == InitSelect /\ [][SelectNext]_vars

----------------------------------------------------------------------------
\* Properties of evaluate_all

RECURSIVE SumFn(_, _)
SumFn(f, S) ==
    IF S = {} THEN 0
    ELSE LET x == CHOOSE y \in S : TRUE
         IN  f[x] + SumFn(f, S \ {x})

EvalDone == eval_pc = "done"

KnownSet == {c \in Criteria : criteria[c].status = "known" /\ criteria[c].score # None}
UnknownSet == {c \in Criteria : criteria[c].status = "unknown"}
NotApplicableSet == {c \in Criteria : criteria[c].status = "not_applicable"}

SumScore(S) == SumFn([c \in S |-> criteria[c].score[1]], S)
SumMax(S) == SumFn([c \in S |-> criteria[c].max_score], S)

\* C1: total_score is (sum of the scores of the Known criteria / sum of the
\* max_score of the Known criteria) * TOTAL_MAX_SCORE, rounded to 2 decimals as
\* the result dict stores it, when that max sum is positive, and 0 otherwise;
\* Unknown criteria are in neither sum.
C1_TotalScoreRenormalized ==
    EvalDone =>
        results.total_score =
            IF SumMax(KnownSet) > 0
            THEN RoundDiv(SumScore(KnownSet) * TOTAL_MAX_SCORE * 100, SumMax(KnownSet))
            ELSE 0

\* An Unknown criterion with weight stands beside Known ones with a score.
C1_Witness ==
    /\ EvalDone
    /\ \E u \in UnknownSet : criteria[u].max_score > 0
    /\ SumMax(KnownSet) > 0
    /\ SumScore(KnownSet) > 0
    /\ results.total_score > 0

\* C2: dropping every not_applicable record from the criteria leaves
\* total_score, the applicable max (the coverage denominator) and every
\* blocks_meta entry as they are.
C2_NotApplicableNeutral ==
    EvalDone =>
        LET Keep(k) == criteria[k].status # "not_applicable"
            kept == SelectSeq(CriterionKeys, Keep)
        IN  /\ total_score(criteria, kept) = results.total_score
            /\ applicable_total_max(criteria, kept)
                   = applicable_total_max(criteria, CriterionKeys)
            /\ Round2(applicable_total_max(criteria, kept)) = results.raw_max_score
            /\ data_coverage_percent(criteria, kept) = results.data_coverage_percent
            /\ \A b \in Blocks :
                   block_meta(criteria, SelectSeq(block_criteria(b), Keep),
                              BLOCK_MAX_SCORES[b]) = results.blocks_meta[b]

\* A not_applicable record with weight is present and the score is positive.
C2_Witness ==
    /\ EvalDone
    /\ \E c \in NotApplicableSet : criteria[c].max_score > 0
    /\ results.total_score > 0
    /\ results.data_coverage_percent > 0

\* C8: data_coverage_percent lies in [0, 100] overall and in every block, and
\* is 0 where the applicable max is 0.
C8_CoverageBounded ==
    EvalDone =>
        /\ results.data_coverage_percent >= 0
        /\ results.data_coverage_percent <= 100 * 100
        /\ SumMax(Criteria \ NotApplicableSet) = 0 => results.data_coverage_percent = 0
        /\ \A b \in Blocks :
              LET members == {c \in Criteria : CRITERION_BLOCK[c] = b}
              IN  /\ results.blocks_meta[b].data_coverage_percent >= 0
                  /\ results.blocks_meta[b].data_coverage_percent <= 100 * 100
                  /\ SumMax(members \ NotApplicableSet) = 0
                        => results.blocks_meta[b].data_coverage_percent = 0

\* No criterion carries applicable weight: the applicable max is 0.
C8_Witness ==
    /\ EvalDone
    /\ SumMax(Criteria \ NotApplicableSet) = 0
    /\ results.data_coverage_percent = 0

\* C9: data_quality_status is red exactly when some warning is critical,
\* yellow exactly when there are warnings and none is critical, green exactly
\* when there is no warning.
C9_QualityBand ==
    EvalDone =>
        LET W == results.data_quality_warnings
            any_critical == \E i \in 1..Len(W) : W[i].level = "critical"
        IN  /\ results.data_quality_status \in {"red", "yellow", "green"}
            /\ results.data_quality_status = "red" <=> any_critical
            /\ results.data_quality_status = "yellow" <=> (W # <<>> /\ ~any_critical)
            /\ results.data_quality_status = "green" <=> W = <<>>

\* A critical warning follows a non-critical one.
C9_Witness ==
    /\ EvalDone
    /\ results.data_quality_status = "red"
    /\ \E i \in 1..Len(results.data_quality_warnings) :
           results.data_quality_warnings[i].level = "warning"

\* C10: a criterion whose table entry lists the evaluator's profile is reported
\* not_applicable without a score, its probe is not invoked, and known_score,
\* known_max and the applicable max are sums over the other criteria only.
C10_ProfileNotApplicable ==
    EvalDone =>
        LET Excluded == {c \in Criteria :
                            stack_profile \in CRITERION_NOT_APPLICABLE_PROFILES[c]}
            Rest == Criteria \ Excluded
        IN  /\ \A c \in Excluded :
                  /\ criteria[c].status = "not_applicable"
                  /\ criteria[c].score = None
                  /\ results.criteria_meta[c].status = "not_applicable"
                  /\ results.scores[c] = None
                  /\ c \notin probe_calls
            /\ results.known_score = Round2(SumScore(Rest \cap KnownSet))
            /\ results.known_max_score = Round2(SumMax(Rest \cap KnownSet))
            /\ results.raw_max_score = Round2(SumMax(Rest \ NotApplicableSet))

\* The probe of an excluded criterion would have produced a score.
C10_Witness ==
    /\ EvalDone
    /\ stack_profile = "node_frontend"
    /\ probe["code_complexity"].score # None
    /\ criteria["code_complexity"].status = "not_applicable"
    /\ criteria["code_complexity"].max_score > 0
    /\ results.known_max_score > 0

\* A record whose status disagrees with its value.
InconsistentRecord(item) ==
    \/ item.status = "known" /\ item.score = None
    \/ item.status \in {"unknown", "not_applicable"} /\ item.score # None

BlockMembers(b) == {c \in Criteria : CRITERION_BLOCK[c] = b}

\* (known_score / known_max) * block budget over the block's Known criteria,
\* rounded to 2 decimals, for a block with known_max > 0
RescaledBlockScore(b) ==
    RoundDiv(SumScore(BlockMembers(b) \cap KnownSet) * BLOCK_MAX_SCORES[b],
             SumMax(BlockMembers(b) \cap KnownSet) * 10)

\* C21 as stated: every block's score is (block known_score / block
\* known_max) * block budget when the block's known_max > 0, and 0 when the
\* block has no Known criterion.
C21_BlockScoreZeroWithoutKnown ==
    EvalDone =>
        \A b \in Blocks :
            results.blocks_meta[b].score =
                IF SumMax(BlockMembers(b) \cap KnownSet) > 0
                THEN Some(RescaledBlockScore(b))
                ELSE Some(0)

\* C21: every block's score is (block known_score / block known_max) * block
\* budget, rounded to 2 decimals, when the block's known_max > 0, and None
\* (no score at all, not 0) when it is not, in particular when the block has
\* no Known criterion.
C21_BlockScoreRule ==
    EvalDone =>
        \A b \in Blocks :
            results.blocks_meta[b].score =
                IF SumMax(BlockMembers(b) \cap KnownSet) > 0
                THEN Some(RescaledBlockScore(b))
                ELSE None

\* One block has no Known criterion; another has both an Unknown criterion
\* with weight and a positive rescaled score that differs from its known score.
C21_Witness ==
    /\ EvalDone
    /\ \E b \in Blocks :
           /\ BlockMembers(b) \cap KnownSet = {}
           /\ results.blocks_meta[b].score = None
    /\ \E b \in Blocks :
           /\ \E u \in BlockMembers(b) \cap UnknownSet : criteria[u].max_score > 0
           /\ results.blocks_meta[b].score # None
           /\ results.blocks_meta[b].score[1] > 0
           /\ results.blocks_meta[b].score[1] # results.blocks_meta[b].known_score

CoreCriteria == {"test_coverage", "code_complexity", "vulnerabilities"}

\* the criteria named by the critical "missing core evidence" warnings
MissingCoreNamed ==
    {c \in Criteria :
        \E i \in 1..Len(results.data_quality_warnings) :
            LET w == results.data_quality_warnings[i]
            IN  /\ w.level = "critical"
                /\ w.text = "missing core evidence for"
                /\ \E k \in 1..Len(w.keys) : w.keys[k] = c}

\* C23: when a core criterion (test_coverage, code_complexity,
\* vulnerabilities) is applicable and Unknown, the warnings hold a critical
\* warning that names it and data_quality_status is "red"; a core criterion
\* whose status is not_applicable is never named by that warning.
C23_UnknownCoreIsCritical ==
    EvalDone =>
        /\ \A c \in CoreCriteria \cap UnknownSet :
               /\ c \in MissingCoreNamed
               /\ results.data_quality_status = "red"
        /\ \A c \in CoreCriteria \cap NotApplicableSet : c \notin MissingCoreNamed

\* One core criterion is Unknown and named while another is not_applicable
\* and the third is Known.
C23_Witness ==
    /\ EvalDone
    /\ "code_complexity" \in NotApplicableSet
    /\ "test_coverage" \in KnownSet
    /\ "vulnerabilities" \in UnknownSet
    /\ MissingCoreNamed = {"vulnerabilities"}
    /\ results.data_quality_status = "red"

\* the critical "data coverage below 40%" warning is among the warnings
CoverageCriticalWarned ==
    \E i \in 1..Len(results.data_quality_warnings) :
        /\ results.data_quality_warnings[i].level = "critical"
        /\ results.data_quality_warnings[i].text = "data coverage below 40%"

CoverageRoundsUpToForty ==
    /\ EvalDone
    /\ CoverageBelow(data_coverage_exact(criteria, CriterionKeys), 40)
    /\ results.data_coverage_percent = 40 * 100

----------------------------------------------------------------------------
\* Properties of the calibration statistics

SpearmanRan ==
    /\ cal_out.op = "spearman_correlation"
    /\ Len(cal_x) = Len(cal_y)
    /\ Len(cal_x) >= 2

\* The (doubled) mean of the 1-based sorted positions a value's tie group
\* occupies: the group sits right after the smaller values.
MeanGroupPosition(values, i) ==
    2 * Cardinality({j \in 1..Len(values) : values[j] < values[i]})
    + Cardinality({j \in 1..Len(values) : values[j] = values[i]}) + 1

AverageRanks(values) == [i \in 1..Len(values) |-> MeanGroupPosition(values, i)]

\* the series with the elements at positions i and i+1 exchanged
SwapAt(s, i) ==
    [k \in 1..Len(s) |-> IF k = i THEN s[i + 1] ELSE IF k = i + 1 THEN s[i] ELSE s[k]]

\* C4: _rank gives every group of tied values the mean of the sorted positions
\* the group occupies; spearman_correlation is the Pearson correlation of those
\* average ranks, and it does not depend on the order in which the (paired)
\* observations, tied ones included, appear in the input.
C4_AverageRanks ==
    SpearmanRan =>
        /\ cal_out.ranks_x = AverageRanks(cal_x)
        /\ cal_out.ranks_y = AverageRanks(cal_y)
        /\ cal_out.value = pearson_correlation(AverageRanks(cal_x), AverageRanks(cal_y))
        /\ \A i \in 1..(Len(cal_x) - 1) :
              spearman_correlation(SwapAt(cal_x, i), SwapAt(cal_y, i)) = cal_out.value

\* the spec's example: [1, 2, 2, 4] is ranked [1, 2.5, 2.5, 4]
C4_Witness ==
    /\ SpearmanRan
    /\ cal_x = <<1, 2, 2, 4>>
    /\ cal_y = <<10, 20, 20, 40>>
    /\ cal_out.ranks_x = <<2, 5, 5, 8>>
    /\ cal_out.value = Some([sign |-> 1, p |-> 1, q |-> 1])

\* One of the three statistics has been called.
CalCalled ==
    cal_out.op \in {"pearson_correlation", "spearman_correlation", "mean_absolute_error"}

\* The call came back with a return value (None included) rather than an error.
CalReturned == "value" \in DOMAIN cal_out

\* C12: pearson_correlation, spearman_correlation and mean_absolute_error
\* raise an error when the two series differ in length; they do not return
\* a value for such a call.
C12_MismatchRaises ==
    (CalCalled /\ Len(cal_x) # Len(cal_y)) => ~CalReturned

----------------------------------------------------------------------------
\* Properties of suggest_criterion_max_scores

TuneDone == tune_out.status = "ok"

\* sum of the suggested weights over a block's criteria, in thousandths
SuggestedBlockSum(block_key) ==
    LET keys == block_criteria(block_key)
    IN  SumSeq([i \in 1..Len(keys) |-> tune_out.suggested_criterion_max_scores[keys[i]]])

\* sum of the weights the call started from
OldBlockSum(block_key) ==
    LET keys == block_criteria(block_key)
    IN  SumSeq([i \in 1..Len(keys) |-> criterion_max_scores[keys[i]]])

StatsSortedByDelta(rows) ==
    \A i \in 1..(Len(rows) - 1) :
        Abs(rows[i].delta_max) >= Abs(rows[i + 1].delta_max)

\* C16: the criterion_stats rows are ordered by |delta_max| descending (every
\* row's absolute delta is >= that of the row after it), each row's delta_max
\* is suggested_max - old_max, and there is one row per criterion.
C16_StatsSortedByDelta ==
    TuneDone =>
        LET rows == tune_out.criterion_stats
        IN  /\ StatsSortedByDelta(rows)
            /\ \A i \in 1..Len(rows) :
                   rows[i].delta_max = rows[i].suggested_max - rows[i].old_max
            /\ Len(rows) = Len(CriterionKeys)
            /\ {rows[i].criterion : i \in 1..Len(rows)} = Criteria

\* a tuning whose rows have different deltas and were moved by the sort: the
\* rows in criterion order are not sorted
C16_Witness ==
    /\ TuneDone
    /\ Abs(tune_out.criterion_stats[1].delta_max)
           > Abs(tune_out.criterion_stats[Len(CriterionKeys)].delta_max)
    /\ ~StatsSortedByDelta(
           [i \in 1..Len(CriterionKeys) |->
               CHOOSE row \in {tune_out.criterion_stats[k] : k \in 1..Len(CriterionKeys)} :
                   row.criterion = CriterionKeys[i]])

\* the computable per-criterion correlations of the call
ComputableCorrelations == correlation_values(tune_evidence)

\* C24: median_spearman_used is the median of all computable per-criterion
\* Spearman correlations: the middle one in sorted order when their number is
\* odd, the mean of the two middle ones when it is even (compared on values
\* rounded to 4 decimals, so up to one rounding unit).
C24_MedianOfCorrelations ==
    (TuneDone /\ ComputableCorrelations # <<>>) =>
        LET n == Len(ComputableCorrelations)
            upper == CorrRound4(SortedCorrAt(ComputableCorrelations, n \div 2))
            lower == CorrRound4(SortedCorrAt(ComputableCorrelations, n \div 2 - 1))
        IN  IF n % 2 = 1 THEN tune_out.median_spearman_used = upper
            ELSE Abs(2 * tune_out.median_spearman_used - (lower + upper)) <= 2

\* the repositories with a label and a result in which the criterion is Known
\* with a score and a positive max_score
UsablePairs(c) ==
    {repo \in (DOMAIN tune_labels) \cap (DOMAIN tune_results) :
        /\ tune_results[repo][c].status = "known"
        /\ tune_results[repo][c].score # None
        /\ tune_results[repo][c].max_score > 0}

\* raw_suggested[c] / old_max[c] of the call, in FactorUnit
RawFactorIs(c, value) ==
    raw_suggested(criterion_max_scores, tune_evidence, tune_out.median_spearman_used,
                  tune_min_samples, c) * block_unit(criterion_max_scores, CRITERION_BLOCK[c])
        = criterion_max_scores[c] * value

StatsRow(c) ==
    CHOOSE row \in {tune_out.criterion_stats[k] : k \in 1..Len(tune_out.criterion_stats)} :
        row.criterion = c

\* C25: a criterion with fewer than min_samples usable pairs gets no
\* correlation (none is computed or reported for it) and its raw weight is
\* old_max * 0.85, whatever its data and whatever the other criteria show.
C25_FewSamplesFlatFactor ==
    TuneDone =>
        \A c \in Criteria :
            Cardinality(UsablePairs(c)) < tune_min_samples =>
                /\ tune_evidence[c].samples = Cardinality(UsablePairs(c))
                /\ tune_evidence[c].corr = None
                /\ StatsRow(c).spearman = None
                /\ RawFactorIs(c, 170000)

\* a criterion with some but too few usable pairs beside one whose factor is
\* driven by its correlation
C25_Witness ==
    /\ TuneDone
    /\ \E c \in Criteria :
           /\ Cardinality(UsablePairs(c)) \in 1..(tune_min_samples - 1)
           /\ criterion_max_scores[c] > 0
           /\ RawFactorIs(c, 170000)
    /\ \E c \in Criteria :
           /\ tune_evidence[c].corr # None
           /\ criterion_max_scores[c] > 0
           /\ ~RawFactorIs(c, 170000)
           /\ ~RawFactorIs(c, FactorUnit)

\* sum(raw_suggested[key] for key in block_criteria) of the call, in block units
RawBlockTotal(b) ==
    raw_total(criterion_max_scores, tune_evidence, tune_out.median_spearman_used,
              tune_min_samples, b)

\* C26: a block whose raw suggested weights sum to <= 0 comes back with its
\* original criterion weights, in the suggested map and in the rows alike
\* (delta 0); the scale block_total / raw_total is not formed for it.
C26_DegenerateBlockKeepsWeights ==
    TuneDone =>
        \A b \in Blocks :
            RawBlockTotal(b) <= 0 =>
                \A c \in BlockMembers(b) :
                    /\ tune_out.suggested_criterion_max_scores[c] = criterion_max_scores[c]
                    /\ StatsRow(c).suggested_max = criterion_max_scores[c]
                    /\ StatsRow(c).delta_max = 0

\* block 1 has raw total 0 and keeps its weights while another block was
\* rescaled
C26_Witness ==
    /\ TuneDone
    /\ RawBlockTotal("block1_code_quality") = 0
    /\ \A c \in BlockMembers("block1_code_quality") :
           tune_out.suggested_criterion_max_scores[c] = 0
    /\ \E c \in Criteria :
           /\ RawBlockTotal(CRITERION_BLOCK[c]) > 0
           /\ tune_out.suggested_criterion_max_scores[c] # criterion_max_scores[c]

\* the current weights of the block are positive and sum to its budget
BlockWeightsFillBudget(b) ==
    /\ \A c \in BlockMembers(b) : criterion_max_scores[c] > 0
    /\ OldBlockSum(b) = BLOCK_MAX_SCORES[b]

\* new lies in [old * 0.75 / 1.30, old * 1.30 / 0.75], with half a thousandth
\* of slack for the 3-decimal rounding (both in thousandths)
WithinFactorBounds(old, new) ==
    /\ 260 * new + 130 >= 150 * old
    /\ 150 * new <= 260 * old + 75

\* C30: for a block whose current criterion weights are positive and sum to
\* the block budget, every weight suggested by suggest_criterion_max_scores
\* lies within [0.75/1.30, 1.30/0.75] times its old weight, up to the
\* 3-decimal rounding.
C30_SuggestedWithinFactorBounds ==
    TuneDone =>
        \A b \in Blocks :
            BlockWeightsFillBudget(b) =>
                \A c \in BlockMembers(b) :
                    WithinFactorBounds(criterion_max_scores[c],
                                       tune_out.suggested_criterion_max_scores[c])

\* in one such block the renormalization carried a weight above 1.30 times
\* its old value while another weight of the block went down
C30_Witness ==
    /\ TuneDone
    /\ \E b \in Blocks :
           /\ BlockWeightsFillBudget(b)
           /\ \E c \in BlockMembers(b) :
                  100 * tune_out.suggested_criterion_max_scores[c]
                      > 130 * criterion_max_scores[c]
           /\ \E c \in BlockMembers(b) :
                  tune_out.suggested_criterion_max_scores[c] < criterion_max_scores[c]

----------------------------------------------------------------------------
\* Properties of the recalibration workflow

\* this step is a call of run_profile_recalibration
RunStep ==
    /\ recal_runs' = recal_runs + 1
    /\ recal_last'.op = "run_profile_recalibration"

OverlapRepos == recal_args.labels \cap DOMAIN recal_args.result_stack

OverlapProfiles ==
    {_canonical_stack_profile(recal_args.result_stack[repo]) : repo \in OverlapRepos}

OverlapCount(stack) ==
    Cardinality({repo \in OverlapRepos :
                    _canonical_stack_profile(recal_args.result_stack[repo]) = stack})

MixedAutoStrict ==
    /\ recal_args.stack_profile = "auto"
    /\ recal_args.strict_stack_profile
    /\ Cardinality(OverlapProfiles) >= 2

\* C5: called with 'auto' and strict mode on an overlap of two or more stack
\* profiles, run_profile_recalibration raises the mixed-profiles error, whose
\* message lists every profile of the overlap with its count; no profile is
\* selected, no step runs and no file or backup changes.
C5_StrictAutoConflict ==
    [][ (RunStep /\ MixedAutoStrict) =>
            /\ recal_last'.status = "raised"
            /\ recal_last'.error.type = "ValueError"
            /\ recal_last'.error.kind = "mixed stack profiles detected"
            /\ Len(recal_last'.error.detail) = Cardinality(OverlapProfiles)
            /\ \A stack \in OverlapProfiles :
                  \E i \in 1..Len(recal_last'.error.detail) :
                      recal_last'.error.detail[i] = <<stack, OverlapCount(stack)>>
            /\ recal_last'.resolved_stack_profile = None
            /\ recal_last'.log = <<>>
            /\ fs' = fs
            /\ backups' = backups ]_vars

C5_Witness ==
    /\ MixedAutoStrict
    /\ recal_last.op = "run_profile_recalibration"
    /\ recal_last.status = "raised"
    /\ recal_last.error.detail = << <<"python_backend", 1>>, <<"python_fullstack_react", 1>> >>
    /\ \A p \in FilePaths \ {"apply_to_config"} : fs[p] = None
    /\ fs["apply_to_config"] = Some(Original)

\* C6: a call of run_profile_recalibration that fails at any step leaves the
\* apply-to configuration file with the content it had before the call.
C6_NoPartialApplication ==
    [][ (RunStep /\ recal_last'.status = "raised") =>
            fs'["apply_to_config"] = fs["apply_to_config"] ]_vars

\* C7: whenever an existing configuration file is overwritten with tuned
\* weights, a timestamped backup holds the content it had before the write.
C7_BackupBeforeOverwrite ==
    [][ (fs["apply_to_config"] # None /\ fs'["apply_to_config"] # fs["apply_to_config"]) =>
            \E t \in DOMAIN backups' : backups'[t] = fs["apply_to_config"] ]_vars

\* the overlapping repositories whose profile is stack
ProfileRepos(stack) ==
    {repo \in OverlapRepos :
        _canonical_stack_profile(recal_args.result_stack[repo]) = stack}

\* the last run worked on exactly the overlapping repositories of one profile
ScopedTo(last, stack) ==
    /\ last.error.type # "ValueError"
    /\ last.resolved_stack_profile = Some(stack)
    /\ last.filtered_repos = SortedSeq(ProfileRepos(stack))
    /\ last.sample_size = Cardinality(ProfileRepos(stack))
    /\ last.filtered_stack_counts = << <<stack, Cardinality(ProfileRepos(stack))>> >>
    /\ last.stack_profile_breakdown = << <<stack, Cardinality(ProfileRepos(stack))>> >>
    /\ last.status = "returned" =>
          /\ \E i \in 1..Len(last.log) : last.log[i] = Compute("build_calibration_report")
          /\ \E i \in 1..Len(last.log) : last.log[i] = Compute("suggest_criterion_max_scores")

ExplicitProfile == recal_args.stack_profile \in NON_AUTO_STACK_PROFILES

\* C17: given an explicit stack profile name, the run calibrates and tunes on
\* the overlapping repositories of that profile alone (sample_size,
\* filtered_stack_counts and the stack breakdown hold that profile only), and
\* it fails with an error, before anything is computed or written, when no
\* overlapping repository has that profile.
C17_ExplicitProfileScope ==
    [][ (RunStep /\ ExplicitProfile) =>
            IF ProfileRepos(recal_args.stack_profile) = {}
            THEN /\ recal_last'.status = "raised"
                 /\ recal_last'.error.type = "ValueError"
                 /\ recal_last'.log = <<>>
                 /\ fs' = fs
            ELSE ScopedTo(recal_last', recal_args.stack_profile) ]_vars

\* a finished run for python_backend on an overlap that also holds another
\* profile
C17_Witness ==
    /\ recal_last.op = "run_profile_recalibration"
    /\ recal_last.status = "returned"
    /\ ExplicitProfile
    /\ Cardinality(OverlapProfiles) >= 2
    /\ Len(recal_last.filtered_repos) >= 2
    /\ Len(recal_last.filtered_repos) < Cardinality(OverlapRepos)

MixedAutoLenient ==
    /\ recal_args.stack_profile = "auto"
    /\ ~recal_args.strict_stack_profile
    /\ Cardinality(OverlapProfiles) >= 2

\* C18: in 'auto' mode with strict mode off and an overlap of several stack
\* profiles the run resolves to a profile whose overlap count is >= that of
\* every other profile, and calibrates and tunes on that profile's samples
\* only.
C18_AutoDominantProfile ==
    [][ (RunStep /\ MixedAutoLenient) =>
            /\ recal_last'.resolved_stack_profile # None
            /\ LET stack == recal_last'.resolved_stack_profile[1]
               IN  /\ stack \in OverlapProfiles
                   /\ \A other \in OverlapProfiles :
                          OverlapCount(stack) >= OverlapCount(other)
                   /\ ScopedTo(recal_last', stack) ]_vars

\* a finished lenient auto run whose dominant profile is not the profile of the
\* first overlapping repository
C18_Witness ==
    /\ recal_last.op = "run_profile_recalibration"
    /\ recal_last.status = "returned"
    /\ MixedAutoLenient
    /\ recal_last.resolved_stack_profile
           # Some(_canonical_stack_profile(recal_args.result_stack[1]))
    /\ \A other \in OverlapProfiles \ {recal_last.resolved_stack_profile[1]} :
           OverlapCount(recal_last.resolved_stack_profile[1]) > OverlapCount(other)

\* the position in the log of a step the run executed, 0 when it did not
LogPosition(log, step) ==
    IF \E i \in 1..Len(log) : log[i] = step
    THEN CHOOSE i \in 1..Len(log) : log[i] = step
    ELSE 0

\* C22: run_profile_recalibration executes Resolve scope -> Filter samples ->
\* Run Calibration -> Run Tuning -> Persist reports in that order: no report
\* or config file is written before both the calibration report and the
\* tuning report have been computed.
C22_PersistAfterCalibrationAndTuning ==
    recal_last.op = "run_profile_recalibration" =>
        \A i \in 1..Len(recal_last.log) :
            recal_last.log[i].op = "write" =>
                /\ LogPosition(recal_last.log, Compute("build_calibration_report")) \in 1..(i - 1)
                /\ LogPosition(recal_last.log, Compute("suggest_criterion_max_scores")) \in 1..(i - 1)

\* C28: across runs that apply to the same existing config path, a backup
\* once stored is never overwritten by a later backup, also when two runs
\* happen within the same second: every backup file keeps its content.
C28_BackupsNeverOverwritten ==
    [][ \A t \in DOMAIN backups :
            backups[t] # None => backups'[t] = backups[t] ]_vars

----------------------------------------------------------------------------
(* Properties of build_calibration_report                                   *)

ReportDone == report # None

ReportSamples == match_samples(report_labels, report_scores)

ExpertSeries == Column(ReportSamples, 2)

ModelSeries == Column(ReportSamples, 3)

HasWarning(w) == \E i \in 1..Len(report[1].warnings) : report[1].warnings[i] = w

\* C13: with fewer than 2 samples, or when the expert series or the model
\* series has zero variance, the report carries None for Pearson and for
\* Spearman together with a warning; with zero samples it carries None for the
\* mean absolute error as well.
C13_UndefinedMetrics ==
    ReportDone =>
        /\ (\/ Len(ExpertSeries) < 2
            \/ IsConstant(ExpertSeries)
            \/ IsConstant(ModelSeries))
              => /\ report[1].metrics.pearson = None
                 /\ report[1].metrics.spearman = None
                 /\ HasWarning(WarnNoRankCorrelation)
        /\ Len(ExpertSeries) = 0
              => /\ report[1].metrics.mae = None
                 /\ HasWarning(WarnSmallSample)

\* the band the thresholds 0.4 and 0.7 give for a reported spearman metric
\* (in ten-thousandths)
BandOfMetric(metric) ==
    IF metric = None THEN "poor"
    ELSE IF metric[1] < 4000 THEN "poor"
    ELSE IF metric[1] < 7000 THEN "moderate"
    ELSE "good"

\* C14: quality_band is "poor" when Spearman rho is undefined or below 0.4,
\* "moderate" when 0.4 <= rho < 0.7 and "good" when rho >= 0.7, and the
\* reported band always agrees with the reported (rounded) spearman metric
\* under these thresholds.
C14_BandAgreesWithMetric ==
    ReportDone =>
        report[1].quality_band = BandOfMetric(report[1].metrics.spearman)

PairsSortedByDisagreement ==
    \A i \in 1..(Len(report[1].pairs) - 1) :
        Abs(report[1].pairs[i].delta) >= Abs(report[1].pairs[i + 1].delta)

\* C15 as stated: the pairs of the returned report are sorted by absolute
\* disagreement |model_score - expert_score|, largest first.
C15_PairsSortedByDisagreement == ReportDone => PairsSortedByDisagreement

\* C15: the pairs of the returned report are one row per repository present
\* in both maps, in ascending repository order, each with
\* delta = model_score - expert_score; the list is not re-ordered by
\* disagreement.
C15_PairsInRepoOrder ==
    ReportDone =>
        LET pairs == report[1].pairs
        IN  /\ {pairs[i].repo : i \in 1..Len(pairs)}
                   = DictKeys(report_labels) \cap DictKeys(report_scores)
            /\ \A i \in 1..(Len(pairs) - 1) : pairs[i].repo < pairs[i + 1].repo
            /\ \A i \in 1..Len(pairs) :
                   /\ pairs[i].expert_score = DictGet(report_labels, pairs[i].repo)
                   /\ pairs[i].model_score = DictGet(report_scores, pairs[i].repo)
                   /\ pairs[i].delta = pairs[i].model_score - pairs[i].expert_score

\* a report with several pairs whose disagreement grows along the list, built
\* from maps that were filled in descending repository order
C15_Witness ==
    /\ ReportDone
    /\ Len(report[1].pairs) >= 2
    /\ ~PairsSortedByDisagreement
    /\ report_labels[1][1] > report_labels[2][1]

\* a map with the same items inserted in another order
Reversed(d) == [i \in 1..Len(d) |-> d[Len(d) + 1 - i]]

Rotated(d) == [i \in 1..Len(d) |-> d[(i % Len(d)) + 1]]

\* everything of a report but the second it was generated in
Undated(r) == [r EXCEPT !.generated_at = 0]

----------------------------------------------------------------------------
\* Properties of detect_stack_profile

Detected == detected # None

\* notebooks are the repository's only source content
NotebookOnly(t) ==
    /\ t.notebooks
    /\ ~t.py_files
    /\ t.root_files \cap PythonManifests = {}
    /\ t.root_files \cap NodeArtifacts = {}
    /\ ~t.node_code

\* C20: a repository whose only source content is Jupyter notebooks (no .py
\* files, no Python manifest, no Node artifacts, no JS/TS code) is classified
\* as python_backend.
C20_NotebookOnlyIsPythonBackend ==
    (Detected /\ NotebookOnly(repo_tree)) => detected = Some("python_backend")

----------------------------------------------------------------------------
\* Properties of select_stratified

Selected == selected # None

RedCount(rows) == Cardinality({k \in 1..Len(rows) : rows[k].red})

\* C27: the rows select_stratified returns include at least
\* min(max(4, size // 5), number of red rows of the input) red rows, also when
\* the selection was trimmed back to size after the red rows were added.
C27_RedRowsRepresented ==
    Selected =>
        RedCount(selected[1])
            >= Min(Max(4, select_size \div 5), RedCount(select_results))

====
